---- MODULE Spec2Model ----
(***************************************************************************)
(* Model of the exercise-repetition and form-scoring engine of VisionFitAi *)
(* (src/pose_detection.py) and of its caller, the /api/analyze-pose route  *)
(* (src/routes.py).                                                        *)
(*                                                                         *)
(* Units.  Python floats are modelled by scaled integers:                  *)
(*   coordinates  : thousandths of the normalised image size               *)
(*   angles       : millidegrees                                           *)
(*   scores       : 1e-4 points inside the scoring functions, tenths of a  *)
(*                  point once rounded by round(x, 1)                      *)
(*   ratios       : exact fractions [num, den]                             *)
(***************************************************************************)
EXTENDS Integers, Sequences, FiniteSets, TLC

(***************************************************************************)
(* Bounds of the model.                                                    *)
(***************************************************************************)
MaxCalls == 4      \* calls of analyze_pose in one behaviour
MaxHist == 3       \* frames remembered since the counters were created
MaxRequests == 4   \* requests handled in one behaviour of SpecSessions
MaxThreadCalls == 3 \* requests started in one behaviour of SpecThreaded
MaxFrames == 3     \* frames measured in one behaviour of SpecCounters

(***************************************************************************)
(* Small arithmetic helpers (Python built-ins).                            *)
(***************************************************************************)
Abs(n) == IF n < 0 THEN -n ELSE n
Max(a, b) == IF a >= b THEN a ELSE b
Min(a, b) == IF a <= b THEN a ELSE b

\* round(p / q, ndigits) for q > 0: nearest integer of p / q, ties to even
RoundDiv(p, q) ==
    LET fl == p \div q
        r2 == 2 * (p - fl * q)
    IN  IF r2 < q THEN fl
        ELSE IF r2 > q THEN fl + 1
        ELSE IF fl % 2 = 0 THEN fl ELSE fl + 1

\* dict.get(key, default)
Get(d, key, default) == IF key \in DOMAIN d THEN d[key] ELSE default

(***************************************************************************)
(* Landmarks.  A well-formed landmark is a dict with numeric 'x' and 'y';  *)
(* a malformed one (None, a missing key, a non-numeric value) makes the    *)
(* first use of it raise inside the counter.                               *)
(***************************************************************************)
Pt(px, py) == [ok |-> TRUE, x |-> px, y |-> py]
Malformed == [ok |-> FALSE, x |-> 0, y |-> 0]

\* landmarks[i] of the Python list (TLA+ sequences start at 1)
At(landmarks, i) == landmarks[i + 1]

\* every landmark of idx can be read and used in arithmetic
Readable(landmarks, idx) == \A i \in idx : At(landmarks, i).ok

(***************************************************************************)
(* Inputs.  Exercise selectors and landmark frames the callers submit.     *)
(***************************************************************************)
ExerciseTypes == {"pushup", "squat", "jumping_jack"}
\* a selector that is no string (a JSON list): looking it up in the dict raises
Unhashable == "[unhashable]"
Selectors == ExerciseTypes \cup {"pogo-stick", Unhashable}
\* the request carries no exercise_type (data.get returns None)
Missing == "[missing]"

\* landmark indices of the fixed anatomical convention
NOSE == 0
LEFT_SHOULDER == 11
RIGHT_SHOULDER == 12
LEFT_ELBOW == 13
RIGHT_ELBOW == 14
LEFT_WRIST == 15
RIGHT_WRIST == 16
LEFT_HIP == 23
RIGHT_HIP == 24
LEFT_KNEE == 25
RIGHT_KNEE == 26
LEFT_ANKLE == 27
RIGHT_ANKLE == 28
NumLandmarks == 33

(***************************************************************************)
(* A frame is built from the positions of both elbows and both knees, the  *)
(* vectors elbow->shoulder (su), elbow->wrist (wu), knee->hip (hu),        *)
(* knee->ankle (au), and the nose.  Every other landmark is at the centre. *)
(***************************************************************************)
Add(p, v) == Pt(p.x + v[1], p.y + v[2])

MkFrame(le, re, su, wu, lk, rk, hu, au, nose) ==
    [i \in 1..NumLandmarks |->
        CASE i - 1 = NOSE -> nose
          [] i - 1 = LEFT_SHOULDER -> Add(le, su)
          [] i - 1 = RIGHT_SHOULDER -> Add(re, su)
          [] i - 1 = LEFT_ELBOW -> le
          [] i - 1 = RIGHT_ELBOW -> re
          [] i - 1 = LEFT_WRIST -> Add(le, wu)
          [] i - 1 = RIGHT_WRIST -> Add(re, wu)
          [] i - 1 = LEFT_HIP -> Add(lk, hu)
          [] i - 1 = RIGHT_HIP -> Add(rk, hu)
          [] i - 1 = LEFT_KNEE -> lk
          [] i - 1 = RIGHT_KNEE -> rk
          [] i - 1 = LEFT_ANKLE -> Add(lk, au)
          [] i - 1 = RIGHT_ANKLE -> Add(rk, au)
          [] OTHER -> Pt(500, 500)]

\* arms 180, knees 180, wrists together, ankles together, body straight
FUp == MkFrame(Pt(500, 600), Pt(500, 620), <<100, 0>>, <<-100, 0>>,
               Pt(500, 600), Pt(500, 620), <<100, 0>>, <<-100, 0>>,
               Pt(500, 100))

\* arms 80, knees 100, arm_ratio 0.4, leg_ratio 0.304 (reported as 0.3), body
\* straight
FDown == MkFrame(Pt(400, 600), Pt(600, 600), <<100, 0>>, <<12, 68>>,
                 Pt(424, 600), Pt(576, 600), <<100, 0>>, <<-12, 68>>,
                 Pt(500, 168))

\* arms 120, knees 140, arm_ratio 0.4, leg_ratio 0.1, hips sagging by 0.05
FMid == MkFrame(Pt(400, 600), Pt(600, 600), <<100, 0>>, <<-56, 97>>,
                Pt(475, 650), Pt(525, 650), <<100, 0>>, <<-87, 73>>,
                Pt(500, 223))

\* arms 20 (raw difference 340, wrapped), knees 60, body_height 0
FLow == MkFrame(Pt(400, 600), Pt(600, 600), <<-187, 33>>, <<-187, -33>>,
                Pt(425, 600), Pt(575, 600), <<100, 0>>, <<56, 97>>,
                Pt(500, 697))

\* FUp with the right wrist and the right ankle malformed
FBad == [FUp EXCEPT ![RIGHT_WRIST + 1] = Malformed,
                    ![RIGHT_ANKLE + 1] = Malformed]

FrameNames == {"FUp", "FDown", "FMid", "FLow", "FBad"}
ShortNames == {"FEmpty", "FShort10", "FShort32"}
InputNames == FrameNames \cup ShortNames

Landmarks(name) ==
    CASE name = "FUp" -> FUp
      [] name = "FDown" -> FDown
      [] name = "FMid" -> FMid
      [] name = "FLow" -> FLow
      [] name = "FBad" -> FBad
      [] name = "FEmpty" -> << >>
      [] name = "FShort10" -> SubSeq(FDown, 1, 10)
      [] name = "FShort32" -> SubSeq(FDown, 1, 32)

(***************************************************************************)
(* np.arctan2(dy, dx) in millidegrees (the value of numpy rounded to the   *)
(* millidegree): the angle of the vector (|dx|, |dy|), tabulated for the   *)
(* vectors of the frames above and for the vectors between the points of   *)
(* Grid, carried to the quadrant of (dx, dy).  np.arctan2(0, 0) is 0 and   *)
(* np.arctan2(0, dx) is 180 for dx < 0.                                    *)
(***************************************************************************)
arctan2_first_quadrant(dy, dx) ==
    CASE dy = 0 -> 0
      [] dy > 0 /\ dx = 0 -> 90000
      [] dy > 0 /\ dx = dy -> 45000
      [] dy = 68 /\ dx = 12 -> 79992
      [] dy = 97 /\ dx = 56 -> 60001
      [] dy = 73 /\ dx = 87 -> 39999
      [] dy = 33 /\ dx = 187 -> 10008
      [] dy = 100 /\ dx = 200 -> 26565
      [] dy = 200 /\ dx = 100 -> 63435

\* the angle t of (|dx|, |dy|) carried to the quadrant of (dx, dy)
arctan2_quadrant(t, dy, dx) ==
    IF dx >= 0
    THEN IF dy >= 0 THEN t ELSE -t
    ELSE IF dy >= 0 THEN 180000 - t ELSE t - 180000

arctan2(dy, dx) ==
    arctan2_quadrant(arctan2_first_quadrant(Abs(dy), Abs(dx)), dy, dx)

\* mutant: the difference of the two directions keeps its sign
calculate_angle_Signed(a, b, c) ==
    LET angle == arctan2(c.y - b.y, c.x - b.x) - arctan2(a.y - b.y, a.x - b.x)
    IN  IF angle > 180000 THEN 360000 - angle ELSE angle

\* PushupCounter._calculate_angle and SquatCounter._calculate_angle (identical)
calculate_angle(a, b, c) ==
    LET diff == arctan2(c.y - b.y, c.x - b.x) - arctan2(a.y - b.y, a.x - b.x)
        angle == Abs(diff)
    IN  IF angle > 180000 THEN 360000 - angle ELSE angle


(***************************************************************************)
(* PushupCounter.                                                          *)
(***************************************************************************)
PushupInit == [state |-> "up", rep_count |-> 0]

PushupLandmarks == {LEFT_SHOULDER, RIGHT_SHOULDER, LEFT_ELBOW, RIGHT_ELBOW,
                    LEFT_WRIST, RIGHT_WRIST, LEFT_HIP, RIGHT_HIP}

\* avg_arm_angle, millidegrees
pushup_avg_arm_angle(landmarks) ==
    LET left_arm_angle == calculate_angle(At(landmarks, LEFT_SHOULDER),
                                          At(landmarks, LEFT_ELBOW),
                                          At(landmarks, LEFT_WRIST))
        right_arm_angle == calculate_angle(At(landmarks, RIGHT_SHOULDER),
                                           At(landmarks, RIGHT_ELBOW),
                                           At(landmarks, RIGHT_WRIST))
    IN  (left_arm_angle + right_arm_angle) \div 2

\* body alignment score, thousandths of a point
calculate_body_alignment(left_shoulder, right_shoulder, left_hip, right_hip) ==
    LET twice_deviation == Abs((left_shoulder.y + right_shoulder.y)
                               - (left_hip.y + right_hip.y))
        alignment_score == Max(0, 100000 - 500 * twice_deviation)
    IN  Min(100000, alignment_score)

\* the two conditions of the rep-counting step
PushupGoesDown(avg_arm_angle) == avg_arm_angle < 90000
PushupGoesUp(avg_arm_angle) == avg_arm_angle > 160000

\* mutant: the count restarts whenever the body goes down
PushupCount_ResetOnDown(self, avg_arm_angle) ==
    IF self.state = "up" /\ avg_arm_angle < 90000
    THEN [self EXCEPT !.state = "down", !.rep_count = 0]
    ELSE IF self.state = "down" /\ avg_arm_angle > 160000
    THEN [self EXCEPT !.state = "up", !.rep_count = @ + 1]
    ELSE self

\* mutant: the rep is counted on the way down instead of on the way up
PushupCount_CountOnDown(self, avg_arm_angle) ==
    IF self.state = "up" /\ avg_arm_angle < 90000
    THEN [self EXCEPT !.state = "down", !.rep_count = @ + 1]
    ELSE IF self.state = "down" /\ avg_arm_angle > 160000
    THEN [self EXCEPT !.state = "up"]
    ELSE self

\* mutant: the thresholds are inclusive (<= 90, >= 160)
PushupCount_Inclusive(self, avg_arm_angle) ==
    IF self.state = "up" /\ avg_arm_angle <= 90000
    THEN [self EXCEPT !.state = "down"]
    ELSE IF self.state = "down" /\ avg_arm_angle >= 160000
    THEN [self EXCEPT !.state = "up", !.rep_count = @ + 1]
    ELSE self

\* mutant: every frame above 160 counts, whatever the phase
PushupCount_CountWhenUp(self, avg_arm_angle) ==
    IF self.state = "up" /\ avg_arm_angle < 90000
    THEN [self EXCEPT !.state = "down"]
    ELSE IF avg_arm_angle > 160000
    THEN [self EXCEPT !.state = "up", !.rep_count = @ + 1]
    ELSE self

\* mutant: the counter goes down only below 60 degrees
PushupCount_Below60(self, avg_arm_angle) ==
    IF self.state = "up" /\ avg_arm_angle < 60000
    THEN [self EXCEPT !.state = "down"]
    ELSE IF self.state = "down" /\ avg_arm_angle > 160000
    THEN [self EXCEPT !.state = "up", !.rep_count = @ + 1]
    ELSE self

\* the rep-counting step: the counter after a frame of the given angle
PushupCount(self, avg_arm_angle) ==
    IF self.state = "up" /\ PushupGoesDown(avg_arm_angle)
    THEN [self EXCEPT !.state = "down"]
    ELSE IF self.state = "down" /\ PushupGoesUp(avg_arm_angle)
    THEN [self EXCEPT !.state = "up", !.rep_count = @ + 1]
    ELSE self

\* mutant: the weights of the angle and of the alignment are exchanged
calculate_pushup_form_score_SwappedWeights(arm_angle, body_alignment) ==
    LET angle_score ==
            IF (60000 <= arm_angle /\ arm_angle <= 90000)
               \/ (160000 <= arm_angle /\ arm_angle <= 180000)
            THEN 100000
            ELSE IF 90000 < arm_angle /\ arm_angle < 160000
            THEN 70000
            ELSE Max(0, 100000 - Abs(arm_angle - 90000) * 2)
        form_score == angle_score * 3 + body_alignment * 7
    IN  Min(1000000, Max(0, form_score))

\* form score in 1e-4 points (arm_angle in millidegrees, body_alignment in
\* thousandths of a point)
calculate_pushup_form_score(arm_angle, body_alignment) ==
    LET angle_score ==
            IF (60000 <= arm_angle /\ arm_angle <= 90000)
               \/ (160000 <= arm_angle /\ arm_angle <= 180000)
            THEN 100000
            ELSE IF 90000 < arm_angle /\ arm_angle < 160000
            THEN 70000
            ELSE Max(0, 100000 - Abs(arm_angle - 90000) * 2)
        form_score == angle_score * 7 + body_alignment * 3
    IN  Min(1000000, Max(0, form_score))

\* mutant: the angle rules are independent ifs instead of an if/elif chain
generate_pushup_feedback_NoPriority(state, arm_angle, body_alignment) ==
    LET low == IF arm_angle < 60000
               THEN <<"Don't go too low - protect your shoulders">> ELSE << >>
        depth == IF arm_angle < 90000 /\ state = "down"
                 THEN <<"Good depth! Now push up">> ELSE << >>
        push == IF arm_angle > 120000 /\ arm_angle < 160000
                THEN <<"Push all the way up">> ELSE << >>
        great == IF arm_angle >= 160000 THEN <<"Great form!">> ELSE << >>
        sagging == IF body_alignment < 70000
                   THEN <<"Keep your body straight - avoid sagging">> ELSE << >>
        feedback == low \o depth \o push \o great \o sagging
    IN  IF feedback = << >> THEN <<"Excellent form!">> ELSE feedback

generate_pushup_feedback(state, arm_angle, body_alignment) ==
    LET angle_msg ==
            IF arm_angle < 60000
            THEN <<"Don't go too low - protect your shoulders">>
            ELSE IF arm_angle < 90000 /\ state = "down"
            THEN <<"Good depth! Now push up">>
            ELSE IF arm_angle > 120000 /\ arm_angle < 160000
            THEN <<"Push all the way up">>
            ELSE IF arm_angle >= 160000
            THEN <<"Great form!">>
            ELSE << >>
        feedback ==
            IF body_alignment < 70000
            THEN Append(angle_msg, "Keep your body straight - avoid sagging")
            ELSE angle_msg
    IN  IF feedback = << >> THEN <<"Excellent form!">> ELSE feedback

\* the dict returned by PushupCounter.analyze for a counter already stepped
PushupResult(self, avg_arm_angle, body_alignment_score) ==
    [reps |-> self.rep_count,
     form_score |-> RoundDiv(calculate_pushup_form_score(avg_arm_angle,
                                                         body_alignment_score), 1000),
     feedback |-> generate_pushup_feedback(self.state, avg_arm_angle,
                                           body_alignment_score),
     arm_angle |-> RoundDiv(avg_arm_angle, 100),
     body_alignment |-> RoundDiv(body_alignment_score, 100),
     state |-> self.state]

\* mutant: the except branch starts the counter afresh
PushupFail_Reset(self) ==
    [self |-> PushupInit, result |-> [error |-> "Pushup analysis failed"]]

\* what a counter does with a frame it cannot read: log, report, keep its state
PushupFail(self) == [self |-> self, result |-> [error |-> "Pushup analysis failed"]]

\* PushupCounter.analyze: the counter after the frame and the dict returned
PushupAnalyze(self, landmarks) ==
    IF ~Readable(landmarks, PushupLandmarks)
    THEN PushupFail(self)
    ELSE LET avg_arm_angle == pushup_avg_arm_angle(landmarks)
             body_alignment_score ==
                 calculate_body_alignment(At(landmarks, LEFT_SHOULDER),
                                          At(landmarks, RIGHT_SHOULDER),
                                          At(landmarks, LEFT_HIP),
                                          At(landmarks, RIGHT_HIP))
             after == PushupCount(self, avg_arm_angle)
         IN  [self |-> after,
              result |-> PushupResult(after, avg_arm_angle, body_alignment_score)]

(***************************************************************************)
(* SquatCounter.                                                           *)
(***************************************************************************)
SquatInit == [state |-> "up", rep_count |-> 0]

SquatLandmarks == {LEFT_HIP, RIGHT_HIP, LEFT_KNEE, RIGHT_KNEE,
                   LEFT_ANKLE, RIGHT_ANKLE}

squat_avg_knee_angle(landmarks) ==
    LET left_knee_angle == calculate_angle(At(landmarks, LEFT_HIP),
                                           At(landmarks, LEFT_KNEE),
                                           At(landmarks, LEFT_ANKLE))
        right_knee_angle == calculate_angle(At(landmarks, RIGHT_HIP),
                                            At(landmarks, RIGHT_KNEE),
                                            At(landmarks, RIGHT_ANKLE))
    IN  (left_knee_angle + right_knee_angle) \div 2

SquatGoesDown(avg_knee_angle) == avg_knee_angle < 120000
SquatGoesUp(avg_knee_angle) == avg_knee_angle > 160000

\* mutant: the push-up's down threshold (90) used for the squat
SquatCount_PushupThreshold(self, avg_knee_angle) ==
    IF self.state = "up" /\ avg_knee_angle < 90000
    THEN [self EXCEPT !.state = "down"]
    ELSE IF self.state = "down" /\ avg_knee_angle > 160000
    THEN [self EXCEPT !.state = "up", !.rep_count = @ + 1]
    ELSE self

\* mutant: the thresholds are inclusive (<= 120, >= 160)
SquatCount_Inclusive(self, avg_knee_angle) ==
    IF self.state = "up" /\ avg_knee_angle <= 120000
    THEN [self EXCEPT !.state = "down"]
    ELSE IF self.state = "down" /\ avg_knee_angle >= 160000
    THEN [self EXCEPT !.state = "up", !.rep_count = @ + 1]
    ELSE self

\* mutant: every frame above 160 counts, whatever the phase
SquatCount_NoPhaseCheck(self, avg_knee_angle) ==
    IF self.state = "up" /\ avg_knee_angle < 120000
    THEN [self EXCEPT !.state = "down"]
    ELSE IF avg_knee_angle > 160000
    THEN [self EXCEPT !.state = "up", !.rep_count = @ + 1]
    ELSE self

\* the rep-counting step of the squat
SquatCount(self, avg_knee_angle) ==
    IF self.state = "up" /\ SquatGoesDown(avg_knee_angle)
    THEN [self EXCEPT !.state = "down"]
    ELSE IF self.state = "down" /\ SquatGoesUp(avg_knee_angle)
    THEN [self EXCEPT !.state = "up", !.rep_count = @ + 1]
    ELSE self

\* mutant: the score of an angle outside the ideal ranges has no floor
calculate_squat_form_score_NoFloor(knee_angle) ==
    IF (80000 <= knee_angle /\ knee_angle <= 120000)
       \/ (160000 <= knee_angle /\ knee_angle <= 180000)
    THEN 1000000
    ELSE IF 120000 < knee_angle /\ knee_angle < 160000
    THEN 700000
    ELSE 1000000 - Abs(knee_angle - 100000) * 15

\* mutant: the push-up's slope (2 points per degree) and centre (90) are used
calculate_squat_form_score_PushupSlope(knee_angle) ==
    IF (80000 <= knee_angle /\ knee_angle <= 120000)
       \/ (160000 <= knee_angle /\ knee_angle <= 180000)
    THEN 1000000
    ELSE IF 120000 < knee_angle /\ knee_angle < 160000
    THEN 700000
    ELSE Max(0, 1000000 - Abs(knee_angle - 90000) * 20)

\* form score in 1e-4 points
calculate_squat_form_score(knee_angle) ==
    IF (80000 <= knee_angle /\ knee_angle <= 120000)
       \/ (160000 <= knee_angle /\ knee_angle <= 180000)
    THEN 1000000
    ELSE IF 120000 < knee_angle /\ knee_angle < 160000
    THEN 700000
    ELSE Max(0, 1000000 - Abs(knee_angle - 100000) * 15)

\* mutant: the depth message does not look at the phase
generate_squat_feedback_NoPhase(state, knee_angle) ==
    IF knee_angle < 80000
    THEN <<"Don't squat too deep">>
    ELSE IF knee_angle <= 120000
    THEN <<"Perfect depth! Now stand up">>
    ELSE IF knee_angle > 130000 /\ knee_angle < 160000
    THEN <<"Stand up completely">>
    ELSE IF knee_angle >= 160000
    THEN <<"Great squat!">>
    ELSE <<"Excellent form!">>

\* mutant: the depth message stops short of 120 (avg < 120)
generate_squat_feedback_Strict(state, knee_angle) ==
    IF knee_angle < 80000
    THEN <<"Don't squat too deep">>
    ELSE IF knee_angle < 120000 /\ state = "down"
    THEN <<"Perfect depth! Now stand up">>
    ELSE IF knee_angle > 130000 /\ knee_angle < 160000
    THEN <<"Stand up completely">>
    ELSE IF knee_angle >= 160000
    THEN <<"Great squat!">>
    ELSE <<"Excellent form!">>

generate_squat_feedback(state, knee_angle) ==
    IF knee_angle < 80000
    THEN <<"Don't squat too deep">>
    ELSE IF knee_angle <= 120000 /\ state = "down"
    THEN <<"Perfect depth! Now stand up">>
    ELSE IF knee_angle > 130000 /\ knee_angle < 160000
    THEN <<"Stand up completely">>
    ELSE IF knee_angle >= 160000
    THEN <<"Great squat!">>
    ELSE <<"Excellent form!">>

SquatResult(self, avg_knee_angle) ==
    [reps |-> self.rep_count,
     form_score |-> RoundDiv(calculate_squat_form_score(avg_knee_angle), 1000),
     feedback |-> generate_squat_feedback(self.state, avg_knee_angle),
     knee_angle |-> RoundDiv(avg_knee_angle, 100),
     state |-> self.state]

SquatFail(self) == [self |-> self, result |-> [error |-> "Squat analysis failed"]]

SquatAnalyze(self, landmarks) ==
    IF ~Readable(landmarks, SquatLandmarks)
    THEN SquatFail(self)
    ELSE LET avg_knee_angle == squat_avg_knee_angle(landmarks)
             after == SquatCount(self, avg_knee_angle)
         IN  [self |-> after, result |-> SquatResult(after, avg_knee_angle)]


(***************************************************************************)
(* JumpingJackCounter.  A ratio is the exact fraction num / den, den > 0.  *)
(***************************************************************************)
JumpingJackInit == [state |-> "closed", rep_count |-> 0]

JumpingJackLandmarks == {LEFT_WRIST, RIGHT_WRIST, LEFT_ANKLE, RIGHT_ANKLE, NOSE}

\* mutant: a body height of 0 is replaced by the smallest positive height
Ratio_Epsilon(spread, body_height) ==
    [num |-> spread, den |-> Max(body_height, 1)]

\* spread / body_height if body_height > 0 else 0
Ratio(spread, body_height) ==
    IF body_height > 0 THEN [num |-> spread, den |-> body_height]
    ELSE [num |-> 0, den |-> 1]

jack_body_height(landmarks) ==
    Abs(At(landmarks, NOSE).y
        - Min(At(landmarks, LEFT_ANKLE).y, At(landmarks, RIGHT_ANKLE).y))

jack_arm_ratio(landmarks) ==
    Ratio(Abs(At(landmarks, RIGHT_WRIST).x - At(landmarks, LEFT_WRIST).x),
          jack_body_height(landmarks))

jack_leg_ratio(landmarks) ==
    Ratio(Abs(At(landmarks, RIGHT_ANKLE).x - At(landmarks, LEFT_ANKLE).x),
          jack_body_height(landmarks))

\* mutant: one of the two spreads is enough
jack_is_open_Either(arm_ratio, leg_ratio) ==
    \/ 10 * arm_ratio.num > 3 * arm_ratio.den
    \/ 10 * leg_ratio.num > 2 * leg_ratio.den

\* is_open = arm_ratio > 0.3 and leg_ratio > 0.2
jack_is_open(arm_ratio, leg_ratio) ==
    /\ 10 * arm_ratio.num > 3 * arm_ratio.den
    /\ 10 * leg_ratio.num > 2 * leg_ratio.den

\* mutant: the rep is counted on opening instead of on closing
JumpingJackCount_CountOnOpen(self, is_open) ==
    IF self.state = "closed" /\ is_open
    THEN [self EXCEPT !.state = "open", !.rep_count = @ + 1]
    ELSE IF self.state = "open" /\ ~is_open
    THEN [self EXCEPT !.state = "closed"]
    ELSE self

\* mutant: a rep is counted on opening and on closing
JumpingJackCount_CountBoth(self, is_open) ==
    IF self.state = "closed" /\ is_open
    THEN [self EXCEPT !.state = "open", !.rep_count = @ + 1]
    ELSE IF self.state = "open" /\ ~is_open
    THEN [self EXCEPT !.state = "closed", !.rep_count = @ + 1]
    ELSE self

\* mutant: the phase is not looked at, every frame that is not open counts
JumpingJackCount_EveryClosed(self, is_open) ==
    IF is_open
    THEN [self EXCEPT !.state = "open"]
    ELSE [self EXCEPT !.state = "closed", !.rep_count = @ + 1]

\* the rep-counting step of the jumping-jack
JumpingJackCount(self, is_open) ==
    IF self.state = "closed" /\ is_open
    THEN [self EXCEPT !.state = "open"]
    ELSE IF self.state = "open" /\ ~is_open
    THEN [self EXCEPT !.state = "closed", !.rep_count = @ + 1]
    ELSE self

\* form score as the fraction num / den of a tenth of a point
calculate_jumping_jack_form_score(arm_ratio, leg_ratio) ==
    LET d == arm_ratio.den * leg_ratio.den
        a == arm_ratio.num * leg_ratio.den
        l == leg_ratio.num * arm_ratio.den
        coordination_diff == Abs(a - l)
        coordination_score == Max(0, 100 * d - coordination_diff * 200)
        range_score == Min(100 * d, (a + l) * 100)
    IN  [num |-> coordination_score * 6 + range_score * 4, den |-> d]

\* mutant: nothing is said when there is nothing to correct
generate_jumping_jack_feedback_NoPraise(arm_ratio, leg_ratio) ==
    LET arms == IF 10 * arm_ratio.num < 2 * arm_ratio.den
                THEN <<"Raise your arms higher">> ELSE << >>
        legs == IF 100 * leg_ratio.num < 15 * leg_ratio.den
                THEN <<"Jump with wider legs">> ELSE << >>
        coordination_diff == Abs(arm_ratio.num * leg_ratio.den
                                 - leg_ratio.num * arm_ratio.den)
        coord == IF 10 * coordination_diff > arm_ratio.den * leg_ratio.den
                 THEN <<"Coordinate arms and legs together">> ELSE << >>
    IN  arms \o legs \o coord

\* mutant: the three checks form an if/elif chain, only the first match is said
generate_jumping_jack_feedback_Chain(arm_ratio, leg_ratio) ==
    IF 10 * arm_ratio.num < 2 * arm_ratio.den
    THEN <<"Raise your arms higher">>
    ELSE IF 100 * leg_ratio.num < 15 * leg_ratio.den
    THEN <<"Jump with wider legs">>
    ELSE IF 10 * Abs(arm_ratio.num * leg_ratio.den - leg_ratio.num * arm_ratio.den)
               > arm_ratio.den * leg_ratio.den
    THEN <<"Coordinate arms and legs together">>
    ELSE <<"Perfect jumping jacks!">>

generate_jumping_jack_feedback(arm_ratio, leg_ratio) ==
    LET arms == IF 10 * arm_ratio.num < 2 * arm_ratio.den
                THEN <<"Raise your arms higher">> ELSE << >>
        legs == IF 100 * leg_ratio.num < 15 * leg_ratio.den
                THEN <<"Jump with wider legs">> ELSE << >>
        coordination_diff == Abs(arm_ratio.num * leg_ratio.den
                                 - leg_ratio.num * arm_ratio.den)
        coord == IF 10 * coordination_diff > arm_ratio.den * leg_ratio.den
                 THEN <<"Coordinate arms and legs together">> ELSE << >>
        feedback == arms \o legs \o coord
    IN  IF feedback = << >> THEN <<"Perfect jumping jacks!">> ELSE feedback

\* ratios are reported in hundredths (round(x, 2))
JumpingJackResult(self, arm_ratio, leg_ratio) ==
    LET form_score == calculate_jumping_jack_form_score(arm_ratio, leg_ratio)
    IN  [reps |-> self.rep_count,
         form_score |-> RoundDiv(form_score.num, form_score.den),
         feedback |-> generate_jumping_jack_feedback(arm_ratio, leg_ratio),
         state |-> self.state,
         arm_ratio |-> RoundDiv(100 * arm_ratio.num, arm_ratio.den),
         leg_ratio |-> RoundDiv(100 * leg_ratio.num, leg_ratio.den)]

\* mutant: no except branch, the fault leaves analyze as an exception
JumpingJackFail_Propagate(self) ==
    [self |-> self, result |-> [raised |-> "TypeError"]]

JumpingJackFail(self) ==
    [self |-> self, result |-> [error |-> "Jumping jack analysis failed"]]

JumpingJackAnalyze(self, landmarks) ==
    IF ~Readable(landmarks, JumpingJackLandmarks)
    THEN JumpingJackFail(self)
    ELSE LET arm_ratio == jack_arm_ratio(landmarks)
             leg_ratio == jack_leg_ratio(landmarks)
             after == JumpingJackCount(self, jack_is_open(arm_ratio, leg_ratio))
         IN  [self |-> after,
              result |-> JumpingJackResult(after, arm_ratio, leg_ratio)]

(***************************************************************************)
(* PoseAnalyzer.                                                           *)
(***************************************************************************)
\* PoseAnalyzer.__init__: one long-lived counter per exercise type
PoseAnalyzerInit ==
    [e \in ExerciseTypes |->
        CASE e = "pushup" -> PushupInit
          [] e = "squat" -> SquatInit
          [] e = "jumping_jack" -> JumpingJackInit]

\* counter.analyze(landmarks), dispatched on the counter's class
CounterAnalyze(exercise_type, self, landmarks) ==
    CASE exercise_type = "pushup" -> PushupAnalyze(self, landmarks)
      [] exercise_type = "squat" -> SquatAnalyze(self, landmarks)
      [] exercise_type = "jumping_jack" -> JumpingJackAnalyze(self, landmarks)

\* the landmarks the counter of an exercise type reads
Required(exercise_type) ==
    CASE exercise_type = "pushup" -> PushupLandmarks
      [] exercise_type = "squat" -> SquatLandmarks
      [] exercise_type = "jumping_jack" -> JumpingJackLandmarks

\* the phase a rep is counted from, and the phase it is counted into
CountFrom(exercise_type) == IF exercise_type = "jumping_jack" THEN "open" ELSE "down"
CountTo(exercise_type) == IF exercise_type = "jumping_jack" THEN "closed" ELSE "up"

\* mutant: the dict of the counter is passed on, completed by the defaults
Envelope_PassThrough(result) ==
    [k \in DOMAIN result \cup {"reps", "form_score", "feedback", "success"} |->
        IF k = "success" THEN TRUE
        ELSE IF k \in DOMAIN result THEN result[k]
        ELSE IF k = "feedback" THEN <<"No feedback available">>
        ELSE 0]

\* the envelope built from the dict a counter returned
Envelope(result) ==
    [reps |-> Get(result, "reps", 0),
     form_score |-> Get(result, "form_score", 0),
     feedback |-> Get(result, "feedback", <<"No feedback available">>),
     success |-> TRUE]

\* the dict built by the except branch of analyze_pose
FailureEnvelope(e) ==
    [error |-> "Analysis failed: " \o e,
     reps |-> 0,
     form_score |-> 0,
     feedback |-> <<"Analysis error occurred">>,
     success |-> FALSE]

\* mutant: the length check is off by one (len(landmarks) < 32)
analyze_pose_ShortCheck(exercise_counters, landmarks, exercise_type) ==
    IF exercise_type = Unhashable
    THEN [counters |-> exercise_counters,
          result |-> FailureEnvelope("unhashable type: 'list'"),
          invoked |-> "none"]
    ELSE IF exercise_type \notin DOMAIN exercise_counters
    THEN [counters |-> exercise_counters,
          result |-> [error |-> "Unsupported exercise type"],
          invoked |-> "none"]
    ELSE IF Len(landmarks) < NumLandmarks - 1
    THEN [counters |-> exercise_counters,
          result |-> [error |-> "Insufficient landmarks detected"],
          invoked |-> "none"]
    ELSE LET out == CounterAnalyze(exercise_type,
                                   exercise_counters[exercise_type], landmarks)
         IN  [counters |-> [exercise_counters EXCEPT ![exercise_type] = out.self],
              result |-> Envelope(out.result),
              invoked |-> exercise_type]

\* mutant: every supported type is routed to the push-up counter's slot
analyze_pose_OneSlot(exercise_counters, landmarks, exercise_type) ==
    IF exercise_type = Unhashable
    THEN [counters |-> exercise_counters,
          result |-> FailureEnvelope("unhashable type: 'list'"),
          invoked |-> "none"]
    ELSE IF exercise_type \notin DOMAIN exercise_counters
    THEN [counters |-> exercise_counters,
          result |-> [error |-> "Unsupported exercise type"],
          invoked |-> "none"]
    ELSE IF Len(landmarks) < NumLandmarks
    THEN [counters |-> exercise_counters,
          result |-> [error |-> "Insufficient landmarks detected"],
          invoked |-> "none"]
    ELSE LET out == CounterAnalyze(exercise_type,
                                   exercise_counters[exercise_type], landmarks)
         IN  [counters |-> [exercise_counters EXCEPT !["pushup"] = out.self],
              result |-> Envelope(out.result),
              invoked |-> exercise_type]

\* mutant: a call with too few landmarks starts the routed counter afresh
analyze_pose_ResetOnShort(exercise_counters, landmarks, exercise_type) ==
    IF exercise_type = Unhashable
    THEN [counters |-> exercise_counters,
          result |-> FailureEnvelope("unhashable type: 'list'"),
          invoked |-> "none"]
    ELSE IF exercise_type \notin DOMAIN exercise_counters
    THEN [counters |-> exercise_counters,
          result |-> [error |-> "Unsupported exercise type"],
          invoked |-> "none"]
    ELSE IF Len(landmarks) < NumLandmarks
    THEN [counters |-> [exercise_counters EXCEPT
                           ![exercise_type] = PoseAnalyzerInit[exercise_type]],
          result |-> [error |-> "Insufficient landmarks detected"],
          invoked |-> "none"]
    ELSE LET out == CounterAnalyze(exercise_type,
                                   exercise_counters[exercise_type], landmarks)
         IN  [counters |-> [exercise_counters EXCEPT ![exercise_type] = out.self],
              result |-> Envelope(out.result),
              invoked |-> exercise_type]

\* PoseAnalyzer.analyze_pose: the counters after the call, the dict returned
\* and the counter whose analyze ran ("none" when no counter was invoked)
analyze_pose(exercise_counters, landmarks, exercise_type) ==
    IF exercise_type = Unhashable
    THEN [counters |-> exercise_counters,
          result |-> FailureEnvelope("unhashable type: 'list'"),
          invoked |-> "none"]
    ELSE IF exercise_type \notin DOMAIN exercise_counters
    THEN [counters |-> exercise_counters,
          result |-> [error |-> "Unsupported exercise type"],
          invoked |-> "none"]
    ELSE IF Len(landmarks) < NumLandmarks
    THEN [counters |-> exercise_counters,
          result |-> [error |-> "Insufficient landmarks detected"],
          invoked |-> "none"]
    ELSE LET out == CounterAnalyze(exercise_type,
                                   exercise_counters[exercise_type], landmarks)
         IN  [counters |-> [exercise_counters EXCEPT ![exercise_type] = out.self],
              result |-> Envelope(out.result),
              invoked |-> exercise_type]


(***************************************************************************)
(* State.                                                                  *)
(***************************************************************************)
Sessions == {"s1", "s2"}

VARIABLES
    exercise_counters,  \* pose_analyzer.exercise_counters: state and rep_count
    result,             \* the dict the last call of analyze_pose returned
    invoked,            \* the counter whose analyze ran in the last call
    hist,               \* <<exercise_type, frame>> of the frames the counters got
    ncalls,             \* calls made so far
    caller,             \* the session of the last request
    status,             \* the HTTP status of the last response
    own,                \* the counters fed with each session's own frames only
    expected,           \* what a session-private analyzer would have returned
    pc,                 \* where each request thread stands
    frame,              \* the locals of each request thread
    args,               \* the arguments of the last direct call of a method
    ret,                \* what that call returned
    entered,            \* per counter: entries into the phase a rep is counted from
    same                \* per counter: the measurement all its frames had, and
                        \* how many frames it got

\* the variables of the direct calls of the counters and of their helpers
direct == <<args, ret, entered, same>>

vars == <<exercise_counters, result, invoked, hist, ncalls, caller, status,
          own, expected, pc, frame, args, ret, entered, same>>

NoResult == [pending |-> TRUE]
Overflow == << <<"overflow", "overflow">> >>
NoArgs == [method |-> "none"]
Mixed == [method |-> "mixed"]
NoFrame == [exercise_type |-> "none", name |-> "none", tmp |-> 0, seen |-> "none"]

\* the analyzer as routes.py creates it, nothing requested yet
Constructed ==
    /\ exercise_counters = PoseAnalyzerInit
    /\ result = NoResult
    /\ invoked = "none"
    /\ hist = << >>
    /\ ncalls = 0
    /\ caller = "none"
    /\ status = 0
    /\ own = [s \in Sessions |-> PoseAnalyzerInit]
    /\ expected = NoResult
    /\ pc = [s \in Sessions |-> "idle"]
    /\ frame = [s \in Sessions |-> NoFrame]
    /\ entered = [e \in ExerciseTypes |-> 0]
    /\ same = [e \in ExerciseTypes |-> [m |-> NoArgs, n |-> 0]]

Init ==
    /\ Constructed
    /\ args = NoArgs
    /\ ret = NoResult

\* the frames delivered to the counters since they were created, while there
\* are at most MaxHist of them
Remember(h, exercise_type, name) ==
    IF h = Overflow \/ Len(h) >= MaxHist THEN Overflow
    ELSE Append(h, <<exercise_type, name>>)

(***************************************************************************)
(* Spec: one caller invoking pose_analyzer.analyze_pose, one call after    *)
(* the other.                                                              *)
(***************************************************************************)
AnalyzePose(name, exercise_type) ==
    /\ UNCHANGED direct
    /\ ncalls < MaxCalls
    /\ LET out == analyze_pose(exercise_counters, Landmarks(name), exercise_type)
       IN  /\ exercise_counters' = out.counters
           /\ result' = out.result
           /\ invoked' = out.invoked
           /\ hist' = IF out.invoked = "none" THEN hist
                      ELSE Remember(hist, exercise_type, name)
    /\ ncalls' = ncalls + 1
    /\ UNCHANGED <<caller, status, own, expected, pc, frame>>

Next == \E name \in InputNames, exercise_type \in Selectors :
            AnalyzePose(name, exercise_type)

Spec == Init /\ [][Next]_vars

(***************************************************************************)
(* The /api/analyze-pose route (routes.py).  pose_analyzer is created once *)
(* when the module is imported and is used by every request of every       *)
(* logged-in user.                                                         *)
(***************************************************************************)
\* the body of the view function, run on the analyzer whose counters are given
route_analyze_pose(counters, landmarks, exercise_type) ==
    IF Len(landmarks) = 0 \/ exercise_type = Missing
    THEN [counters |-> counters,
          result |-> [error |-> "Missing landmarks or exercise type"],
          status |-> 400,
          invoked |-> "none"]
    ELSE LET out == analyze_pose(counters, landmarks, exercise_type)
         IN  [counters |-> out.counters,
              result |-> out.result,
              status |-> 200,
              invoked |-> out.invoked]

(***************************************************************************)
(* SpecSessions: two logged-in sessions post frames; every request is      *)
(* handled from start to end before the next one starts.  own and expected *)
(* record what an analyzer owned by the session alone would hold and       *)
(* return.                                                                 *)
(***************************************************************************)
Request(s, name, exercise_type) ==
    /\ UNCHANGED direct
    /\ ncalls < MaxRequests
    /\ LET out == route_analyze_pose(exercise_counters, Landmarks(name), exercise_type)
           private == route_analyze_pose(own[s], Landmarks(name), exercise_type)
       IN  /\ exercise_counters' = out.counters
           /\ result' = out.result
           /\ status' = out.status
           /\ invoked' = out.invoked
           /\ own' = [own EXCEPT ![s] = private.counters]
           /\ expected' = private.result
    /\ caller' = s
    /\ ncalls' = ncalls + 1
    /\ UNCHANGED <<hist, pc, frame>>

NextSessions ==
    \E s \in Sessions, name \in InputNames, exercise_type \in Selectors \cup {Missing} :
        Request(s, name, exercise_type)

SpecSessions == Init /\ [][NextSessions]_vars

(***************************************************************************)
(* SpecThreaded: the server handles each request on a thread of its own    *)
(* (app.run of run.py starts the threaded development server) and the view *)
(* function takes no lock, so the statements of two calls of analyze on    *)
(* the shared counters interleave.  A thread switch can fall between any   *)
(* two accesses of self.state and self.rep_count; what a thread computes   *)
(* from its own locals in between is taken as one step.                    *)
(*   pc: idle -> analyze -> check_down -> (set_down | check_up)            *)
(*          check_up -> (set_up -> load_count -> store_count | feedback)   *)
(*          set_down, store_count -> feedback -> return -> idle            *)
(***************************************************************************)
\* the first condition of the counter's if statement, on the frame's values
EntersCounted(exercise_type, landmarks) ==
    CASE exercise_type = "pushup" -> PushupGoesDown(pushup_avg_arm_angle(landmarks))
      [] exercise_type = "squat" -> SquatGoesDown(squat_avg_knee_angle(landmarks))
      [] exercise_type = "jumping_jack" ->
            jack_is_open(jack_arm_ratio(landmarks), jack_leg_ratio(landmarks))

\* the condition of the elif
LeavesCounted(exercise_type, landmarks) ==
    CASE exercise_type = "pushup" -> PushupGoesUp(pushup_avg_arm_angle(landmarks))
      [] exercise_type = "squat" -> SquatGoesUp(squat_avg_knee_angle(landmarks))
      [] exercise_type = "jumping_jack" ->
            ~jack_is_open(jack_arm_ratio(landmarks), jack_leg_ratio(landmarks))

\* the dict the counter returns, from the values of self it read
ResultOf(exercise_type, self, landmarks) ==
    CASE exercise_type = "pushup" ->
            PushupResult(self, pushup_avg_arm_angle(landmarks),
                         calculate_body_alignment(At(landmarks, LEFT_SHOULDER),
                                                  At(landmarks, RIGHT_SHOULDER),
                                                  At(landmarks, LEFT_HIP),
                                                  At(landmarks, RIGHT_HIP)))
      [] exercise_type = "squat" ->
            SquatResult(self, squat_avg_knee_angle(landmarks))
      [] exercise_type = "jumping_jack" ->
            JumpingJackResult(self, jack_arm_ratio(landmarks), jack_leg_ratio(landmarks))

Respond(s, res, code) ==
    /\ result' = res
    /\ status' = code
    /\ caller' = s

\* the view function up to the call of counter.analyze
T_Start(s, name, exercise_type) ==
    /\ UNCHANGED direct
    /\ pc[s] = "idle"
    /\ ncalls < MaxThreadCalls
    /\ ncalls' = ncalls + 1
    /\ LET out == route_analyze_pose(exercise_counters, Landmarks(name), exercise_type)
       IN  IF out.invoked = "none"
           THEN /\ Respond(s, out.result, out.status)
                /\ invoked' = "none"
                /\ UNCHANGED <<pc, frame>>
           ELSE /\ pc' = [pc EXCEPT ![s] = "analyze"]
                /\ frame' = [frame EXCEPT ![s] = [exercise_type |-> exercise_type,
                                                  name |-> name, tmp |-> 0,
                                                  seen |-> "none"]]
                /\ invoked' = exercise_type
                /\ UNCHANGED <<result, status, caller>>
    /\ UNCHANGED <<exercise_counters, hist, own, expected>>

\* the landmark reads and the arithmetic before the if statement
T_Read(s) ==
    /\ UNCHANGED direct
    /\ pc[s] = "analyze"
    /\ LET e == frame[s].exercise_type
           landmarks == Landmarks(frame[s].name)
       IN  IF Readable(landmarks, Required(e))
           THEN /\ pc' = [pc EXCEPT ![s] = "check_down"]
                /\ UNCHANGED <<result, status, caller, frame>>
           ELSE /\ Respond(s, Envelope(CounterAnalyze(e, exercise_counters[e],
                                                      landmarks).result), 200)
                /\ pc' = [pc EXCEPT ![s] = "idle"]
                /\ frame' = [frame EXCEPT ![s] = NoFrame]
    /\ UNCHANGED <<exercise_counters, invoked, hist, ncalls, own, expected>>

\* if self.state == "up" and <condition>
T_CheckDown(s) ==
    /\ UNCHANGED direct
    /\ pc[s] = "check_down"
    /\ LET e == frame[s].exercise_type
       IN  pc' = [pc EXCEPT ![s] =
                     IF exercise_counters[e].state = CountTo(e)
                        /\ EntersCounted(e, Landmarks(frame[s].name))
                     THEN "set_down" ELSE "check_up"]
    /\ UNCHANGED <<exercise_counters, result, invoked, hist, ncalls, caller,
                   status, own, expected, frame>>

\* self.state = "down"
T_SetDown(s) ==
    /\ pc[s] = "set_down"
    /\ LET e == frame[s].exercise_type
       IN  /\ exercise_counters' = [exercise_counters EXCEPT ![e].state = CountFrom(e)]
           /\ entered' = [entered EXCEPT ![e] =
                             IF exercise_counters[e].state = CountTo(e)
                             THEN @ + 1 ELSE @]
    /\ UNCHANGED <<args, ret, same>>
    /\ pc' = [pc EXCEPT ![s] = "feedback"]
    /\ UNCHANGED <<result, invoked, hist, ncalls, caller, status, own, expected, frame>>

\* elif self.state == "down" and <condition>
T_CheckUp(s) ==
    /\ UNCHANGED direct
    /\ pc[s] = "check_up"
    /\ LET e == frame[s].exercise_type
       IN  pc' = [pc EXCEPT ![s] =
                     IF exercise_counters[e].state = CountFrom(e)
                        /\ LeavesCounted(e, Landmarks(frame[s].name))
                     THEN "set_up" ELSE "feedback"]
    /\ UNCHANGED <<exercise_counters, result, invoked, hist, ncalls, caller,
                   status, own, expected, frame>>

\* self.state = "up"
T_SetUp(s) ==
    /\ UNCHANGED direct
    /\ pc[s] = "set_up"
    /\ LET e == frame[s].exercise_type
       IN  exercise_counters' = [exercise_counters EXCEPT ![e].state = CountTo(e)]
    /\ pc' = [pc EXCEPT ![s] = "load_count"]
    /\ UNCHANGED <<result, invoked, hist, ncalls, caller, status, own, expected, frame>>

\* self.rep_count += 1, the load
T_LoadCount(s) ==
    /\ UNCHANGED direct
    /\ pc[s] = "load_count"
    /\ frame' = [frame EXCEPT ![s].tmp = exercise_counters[frame[s].exercise_type].rep_count]
    /\ pc' = [pc EXCEPT ![s] = "store_count"]
    /\ UNCHANGED <<exercise_counters, result, invoked, hist, ncalls, caller,
                   status, own, expected>>

\* self.rep_count += 1, the store
T_StoreCount(s) ==
    /\ UNCHANGED direct
    /\ pc[s] = "store_count"
    /\ exercise_counters' =
          [exercise_counters EXCEPT ![frame[s].exercise_type].rep_count = frame[s].tmp + 1]
    /\ pc' = [pc EXCEPT ![s] = "feedback"]
    /\ UNCHANGED <<result, invoked, hist, ncalls, caller, status, own, expected, frame>>

\* the score and the feedback; the feedback reads self.state
T_Feedback(s) ==
    /\ UNCHANGED direct
    /\ pc[s] = "feedback"
    /\ frame' = [frame EXCEPT ![s].seen = exercise_counters[frame[s].exercise_type].state]
    /\ pc' = [pc EXCEPT ![s] = "return"]
    /\ UNCHANGED <<exercise_counters, result, invoked, hist, ncalls, caller,
                   status, own, expected>>

\* the dict literal reads self.rep_count; the envelope goes back to the client
T_Return(s) ==
    /\ UNCHANGED direct
    /\ pc[s] = "return"
    /\ LET e == frame[s].exercise_type
           seen == [state |-> frame[s].seen,
                    rep_count |-> exercise_counters[e].rep_count]
       IN  Respond(s, Envelope(ResultOf(e, seen, Landmarks(frame[s].name))), 200)
    /\ pc' = [pc EXCEPT ![s] = "idle"]
    /\ frame' = [frame EXCEPT ![s] = NoFrame]
    /\ UNCHANGED <<exercise_counters, invoked, hist, ncalls, own, expected>>

NextThreaded ==
    \E s \in Sessions :
        \/ \E name \in InputNames, exercise_type \in Selectors \cup {Missing} :
               T_Start(s, name, exercise_type)
        \/ T_Read(s)
        \/ T_CheckDown(s)
        \/ T_SetDown(s)
        \/ T_CheckUp(s)
        \/ T_SetUp(s)
        \/ T_LoadCount(s)
        \/ T_StoreCount(s)
        \/ T_Feedback(s)
        \/ T_Return(s)

SpecThreaded == Init /\ [][NextThreaded]_vars

\* the thread of session s is inside counter.analyze
InAnalyze(s) == pc[s] # "idle"

(***************************************************************************)
(* SpecCounters: the three counters called directly, one frame after the   *)
(* other.  A frame is given by what analyze measures on it (the average    *)
(* joint angle and the alignment score, or the two ratios), so that the    *)
(* measurements on and next to every threshold occur.                      *)
(***************************************************************************)
\* average joint angles, millidegrees
Angles == {0, 59999, 89999, 90000, 90001, 119999, 120000, 120001,
           159999, 160000, 160001, 175000, 180000}
\* body alignment scores, thousandths of a point
Alignments == {50000, 100000}
\* arm and leg ratios
ArmRatios == {[num |-> 0, den |-> 1], [num |-> 3, den |-> 10],
              [num |-> 31, den |-> 100], [num |-> 1, den |-> 2]}
LegRatios == {[num |-> 0, den |-> 1], [num |-> 1, den |-> 5],
              [num |-> 21, den |-> 100], [num |-> 1, den |-> 2]}

\* what analyze of each counter measures on a frame
Measurements(exercise_type) ==
    CASE exercise_type = "pushup" ->
            [method : {"pushup"}, angle : Angles, alignment : Alignments]
      [] exercise_type = "squat" -> [method : {"squat"}, angle : Angles]
      [] exercise_type = "jumping_jack" ->
            [method : {"jumping_jack"}, arm : ArmRatios, leg : LegRatios]

\* analyze from the rep-counting step on: the counter after the frame and
\* the dict returned
Measured(self, m) ==
    CASE m.method = "pushup" ->
            LET after == PushupCount(self, m.angle)
            IN  [self |-> after,
                 result |-> PushupResult(after, m.angle, m.alignment)]
      [] m.method = "squat" ->
            LET after == SquatCount(self, m.angle)
            IN  [self |-> after, result |-> SquatResult(after, m.angle)]
      [] m.method = "jumping_jack" ->
            LET after == JumpingJackCount(self, jack_is_open(m.arm, m.leg))
            IN  [self |-> after,
                 result |-> JumpingJackResult(after, m.arm, m.leg)]

\* the step enters the phase a rep is counted from
Enters(exercise_type, before, after) ==
    before.state = CountTo(exercise_type) /\ after.state = CountFrom(exercise_type)

\* the step leaves it
Leaves(exercise_type, before, after) ==
    before.state = CountFrom(exercise_type) /\ after.state = CountTo(exercise_type)

AnalyzeFrame(exercise_type, m) ==
    /\ ncalls < MaxFrames
    /\ LET before == exercise_counters[exercise_type]
           out == Measured(before, m)
       IN  /\ exercise_counters' = [exercise_counters EXCEPT ![exercise_type] = out.self]
           /\ ret' = out.result
           /\ entered' = [entered EXCEPT ![exercise_type] =
                             IF Enters(exercise_type, before, out.self)
                             THEN @ + 1 ELSE @]
    /\ same' = [same EXCEPT ![exercise_type] =
                    [m |-> IF @.n = 0 \/ @.m = m THEN m ELSE Mixed, n |-> @.n + 1]]
    /\ args' = m
    /\ ncalls' = ncalls + 1
    /\ UNCHANGED <<result, invoked, hist, caller, status, own, expected, pc, frame>>

NextCounters ==
    \E exercise_type \in ExerciseTypes :
        \E m \in Measurements(exercise_type) : AnalyzeFrame(exercise_type, m)

SpecCounters == Init /\ [][NextCounters]_vars

(***************************************************************************)
(* SpecScores: the three scoring functions and the body alignment helper   *)
(* called on their own, once, on arguments taken from their whole domain:  *)
(* angles below and above every ideal range (0 and 200 included),          *)
(* alignment scores inside and outside [0, 100], ratios from 0 to 5,       *)
(* shoulders and hips up to 0.2 of the frame height apart.                 *)
(***************************************************************************)
ScoreAngles == {0, 30000, 40000, 50000, 59999, 60000, 79999, 80000, 90000,
                90001, 120000, 120001, 140000, 159999, 160000, 180000, 180001,
                200000}
\* y of the shoulders and of the hips, thousandths of the frame height
ScoreHeights == {400, 450, 500, 600}
ScoreAlignments == {-50000, 0, 50000, 100000, 150000}
ScoreRatios == {[num |-> 0, den |-> 1], [num |-> 1, den |-> 10],
                [num |-> 3, den |-> 10], [num |-> 1, den |-> 2],
                [num |-> 1, den |-> 1], [num |-> 5, den |-> 1]}

ScoreArgs ==
    [method : {"_calculate_pushup_form_score"},
     arm_angle : ScoreAngles, body_alignment : ScoreAlignments]
    \cup [method : {"_calculate_squat_form_score"}, knee_angle : ScoreAngles]
    \cup [method : {"_calculate_jumping_jack_form_score"},
          arm_ratio : ScoreRatios, leg_ratio : ScoreRatios]
    \cup [method : {"_calculate_body_alignment"},
          left_shoulder : ScoreHeights, right_shoulder : ScoreHeights,
          left_hip : ScoreHeights, right_hip : ScoreHeights]

InitScores ==
    /\ Constructed
    /\ args \in ScoreArgs
    /\ ret = NoResult

ScorePushup ==
    /\ args.method = "_calculate_pushup_form_score"
    /\ ret = NoResult
    /\ ret' = [form_score |->
                  calculate_pushup_form_score(args.arm_angle, args.body_alignment)]
    /\ UNCHANGED <<exercise_counters, result, invoked, hist, ncalls, caller,
                   status, own, expected, pc, frame, args, entered, same>>

ScoreSquat ==
    /\ args.method = "_calculate_squat_form_score"
    /\ ret = NoResult
    /\ ret' = [form_score |-> calculate_squat_form_score(args.knee_angle)]
    /\ UNCHANGED <<exercise_counters, result, invoked, hist, ncalls, caller,
                   status, own, expected, pc, frame, args, entered, same>>

ScoreJumpingJack ==
    /\ args.method = "_calculate_jumping_jack_form_score"
    /\ ret = NoResult
    /\ ret' = [form_score |->
                  calculate_jumping_jack_form_score(args.arm_ratio, args.leg_ratio)]
    /\ UNCHANGED <<exercise_counters, result, invoked, hist, ncalls, caller,
                   status, own, expected, pc, frame, args, entered, same>>

BodyAlignment ==
    /\ args.method = "_calculate_body_alignment"
    /\ ret = NoResult
    /\ ret' = [alignment_score |->
                  calculate_body_alignment(Pt(400, args.left_shoulder),
                                           Pt(600, args.right_shoulder),
                                           Pt(450, args.left_hip),
                                           Pt(550, args.right_hip))]
    /\ UNCHANGED <<exercise_counters, result, invoked, hist, ncalls, caller,
                   status, own, expected, pc, frame, args, entered, same>>

NextScores == ScorePushup \/ ScoreSquat \/ ScoreJumpingJack \/ BodyAlignment

SpecScores == InitScores /\ [][NextScores]_vars

(***************************************************************************)
(* SpecAngle: the angle helper called on its own, once, on three points of *)
(* a 3 x 3 grid, coinciding points included.                               *)
(***************************************************************************)
GridCoordinates == {400, 500, 600}
Grid == {Pt(px, py) : px \in GridCoordinates, py \in GridCoordinates}

InitAngle ==
    /\ Constructed
    /\ args \in [method : {"_calculate_angle"}, a : Grid, b : Grid, c : Grid]
    /\ ret = NoResult

CalculateAngle ==
    /\ args.method = "_calculate_angle"
    /\ ret = NoResult
    /\ ret' = [angle |-> calculate_angle(args.a, args.b, args.c)]
    /\ UNCHANGED <<exercise_counters, result, invoked, hist, ncalls, caller,
                   status, own, expected, pc, frame, args, entered, same>>

NextAngle == CalculateAngle

SpecAngle == InitAngle /\ [][NextAngle]_vars

(***************************************************************************)
(* SpecFeedback: the three feedback generators called on their own, once,  *)
(* on a phase (self.state) and measurements taken on and next to every     *)
(* threshold of their rules.                                               *)
(***************************************************************************)
FeedbackAngles == {0, 59999, 60000, 79999, 80000, 89999, 90000, 120000,
                   120001, 130000, 130001, 159999, 160000, 180000}
FeedbackAlignments == {0, 69999, 70000, 100000}
FeedbackArmRatios == {[num |-> 0, den |-> 1], [num |-> 19, den |-> 100],
                      [num |-> 1, den |-> 5], [num |-> 3, den |-> 10],
                      [num |-> 1, den |-> 2]}
FeedbackLegRatios == {[num |-> 0, den |-> 1], [num |-> 7, den |-> 50],
                      [num |-> 3, den |-> 20], [num |-> 1, den |-> 5],
                      [num |-> 1, den |-> 2]}

FeedbackArgs ==
    [method : {"_generate_pushup_feedback"}, state : {"up", "down"},
     arm_angle : FeedbackAngles, body_alignment : FeedbackAlignments]
    \cup [method : {"_generate_squat_feedback"}, state : {"up", "down"},
          knee_angle : FeedbackAngles]
    \cup [method : {"_generate_jumping_jack_feedback"},
          arm_ratio : FeedbackArmRatios, leg_ratio : FeedbackLegRatios]

InitFeedback ==
    /\ Constructed
    /\ args \in FeedbackArgs
    /\ ret = NoResult

FeedbackPushup ==
    /\ args.method = "_generate_pushup_feedback"
    /\ ret = NoResult
    /\ ret' = [feedback |-> generate_pushup_feedback(args.state, args.arm_angle,
                                                     args.body_alignment)]
    /\ UNCHANGED <<exercise_counters, result, invoked, hist, ncalls, caller,
                   status, own, expected, pc, frame, args, entered, same>>

FeedbackSquat ==
    /\ args.method = "_generate_squat_feedback"
    /\ ret = NoResult
    /\ ret' = [feedback |-> generate_squat_feedback(args.state, args.knee_angle)]
    /\ UNCHANGED <<exercise_counters, result, invoked, hist, ncalls, caller,
                   status, own, expected, pc, frame, args, entered, same>>

FeedbackJumpingJack ==
    /\ args.method = "_generate_jumping_jack_feedback"
    /\ ret = NoResult
    /\ ret' = [feedback |-> generate_jumping_jack_feedback(args.arm_ratio,
                                                           args.leg_ratio)]
    /\ UNCHANGED <<exercise_counters, result, invoked, hist, ncalls, caller,
                   status, own, expected, pc, frame, args, entered, same>>

NextFeedback == FeedbackPushup \/ FeedbackSquat \/ FeedbackJumpingJack

SpecFeedback == InitFeedback /\ [][NextFeedback]_vars

(***************************************************************************)
(* Helpers of the properties.                                              *)
(***************************************************************************)
\* a full-length frame on which the counter of exercise_type fails
FailsIn(name, exercise_type) ==
    /\ Len(Landmarks(name)) >= NumLandmarks
    /\ ~Readable(Landmarks(name), Required(exercise_type))

\* an angle of deg degrees, to a hundredth of a degree
Near(angle, deg) == Abs(angle - deg * 1000) <= 10

\* the first n remembered frames all went to the counter of exercise_type
OnlyTo(exercise_type, n) ==
    /\ hist # Overflow
    /\ Len(hist) = n
    /\ \A i \in 1..n : hist[i][1] = exercise_type

ArmAngle(i) == pushup_avg_arm_angle(Landmarks(hist[i][2]))
KneeAngle(i) == squat_avg_knee_angle(Landmarks(hist[i][2]))
ReadableBy(exercise_type, i) == Readable(Landmarks(hist[i][2]), Required(exercise_type))

\* the ratios of a frame as jumping-jack reports them, in hundredths
RatiosAre(i, arm, leg) ==
    LET landmarks == Landmarks(hist[i][2])
        a == jack_arm_ratio(landmarks)
        l == jack_leg_ratio(landmarks)
    IN  /\ RoundDiv(100 * a.num, a.den) = arm
        /\ RoundDiv(100 * l.num, l.den) = leg

(***************************************************************************)
(* C1.  For each of the three counters rep_count is a non-negative integer *)
(* that never decreases and is never reset; a step changes it only by +1,  *)
(* and exactly when the step takes the counting transition (down -> up for *)
(* push-up and squat, open -> closed for jumping-jack).                    *)
(***************************************************************************)
C1_RepCountMonotone ==
    [][\A e \in ExerciseTypes :
          LET before == exercise_counters[e]
              after == exercise_counters'[e]
          IN  /\ after.rep_count \in Nat
              /\ after.rep_count \in {before.rep_count, before.rep_count + 1}
              /\ (after.rep_count = before.rep_count + 1)
                    <=> (before.state = CountFrom(e) /\ after.state = CountTo(e))]_vars

\* a counter has counted twice
C1_Witness ==
    \E e \in ExerciseTypes :
        exercise_counters[e].rep_count = 2 /\ exercise_counters[e].state = CountTo(e)

(***************************************************************************)
(* C2.  Push-up, fresh counter: frames with avg_arm_angle 180, 80, 180     *)
(* leave rep_count at 1, and it is still 0 after the first and after the   *)
(* second of them; after 180, 80 and then only frames that do not exceed   *)
(* 160, rep_count is 0.                                                    *)
(***************************************************************************)
C2_PushupCycle ==
    \A n \in 1..Len(hist) :
        (/\ OnlyTo("pushup", n)
         /\ \A i \in 1..n : ReadableBy("pushup", i)
         /\ Near(ArmAngle(1), 180)
         /\ n >= 2 => Near(ArmAngle(2), 80))
        => /\ n <= 2 => exercise_counters["pushup"].rep_count = 0
           /\ (n = 3 /\ Near(ArmAngle(3), 180))
                 => exercise_counters["pushup"].rep_count = 1
           /\ (\A i \in 3..n : ArmAngle(i) <= 160000)
                 => exercise_counters["pushup"].rep_count = 0

C2_Witness ==
    /\ OnlyTo("pushup", 3)
    /\ \A i \in 1..3 : ReadableBy("pushup", i)
    /\ Near(ArmAngle(1), 180) /\ Near(ArmAngle(2), 80) /\ Near(ArmAngle(3), 180)
    /\ exercise_counters["pushup"].rep_count = 1

(***************************************************************************)
(* C3.  Squat, fresh counter: frames with avg_knee_angle 180, 100, 180     *)
(* leave rep_count at 1 (0 before the third frame) and the phase "up".     *)
(***************************************************************************)
C3_SquatCycle ==
    \A n \in 1..Len(hist) :
        (/\ OnlyTo("squat", n)
         /\ \A i \in 1..n : ReadableBy("squat", i)
         /\ Near(KneeAngle(1), 180)
         /\ n >= 2 => Near(KneeAngle(2), 100)
         /\ n >= 3 => Near(KneeAngle(3), 180)
         /\ n <= 3)
        => /\ exercise_counters["squat"].rep_count = IF n = 3 THEN 1 ELSE 0
           /\ n = 3 => exercise_counters["squat"].state = "up"

C3_Witness ==
    /\ OnlyTo("squat", 3)
    /\ \A i \in 1..3 : ReadableBy("squat", i)
    /\ Near(KneeAngle(1), 180) /\ Near(KneeAngle(2), 100) /\ Near(KneeAngle(3), 180)
    /\ exercise_counters["squat"] = [state |-> "up", rep_count |-> 1]

(***************************************************************************)
(* C4.  Jumping-jack, fresh counter: frames with (arm_ratio, leg_ratio)    *)
(* (0, 0), (0.4, 0.3), (0, 0) leave rep_count at 1; it is 0 after the      *)
(* frame that opens and becomes 1 on the frame that closes.                *)
(***************************************************************************)
C4_JumpingJackCycle ==
    \A n \in 1..Len(hist) :
        (/\ OnlyTo("jumping_jack", n)
         /\ \A i \in 1..n : ReadableBy("jumping_jack", i)
         /\ RatiosAre(1, 0, 0)
         /\ n >= 2 => RatiosAre(2, 40, 30)
         /\ n >= 3 => RatiosAre(3, 0, 0)
         /\ n <= 3)
        => /\ exercise_counters["jumping_jack"].rep_count = IF n = 3 THEN 1 ELSE 0
           /\ exercise_counters["jumping_jack"].state
                 = IF n = 2 THEN "open" ELSE "closed"

C4_Witness ==
    /\ OnlyTo("jumping_jack", 3)
    /\ \A i \in 1..3 : ReadableBy("jumping_jack", i)
    /\ RatiosAre(1, 0, 0) /\ RatiosAre(2, 40, 30) /\ RatiosAre(3, 0, 0)
    /\ exercise_counters["jumping_jack"] = [state |-> "closed", rep_count |-> 1]

(***************************************************************************)
(* C5.  A call in which the routed counter fails on a full-length frame    *)
(* (a required landmark is malformed) leaves the phase and the rep_count   *)
(* of every counter as they were, whatever the counters' state.            *)
(***************************************************************************)
C5_FailedFrameReadOnly ==
    [][\A name \in FrameNames, e \in ExerciseTypes :
          (FailsIn(name, e) /\ AnalyzePose(name, e))
             => exercise_counters' = exercise_counters]_vars

\* a counter that has counted and is half way through a rep has just failed
C5_Witness ==
    \E e \in ExerciseTypes :
        /\ invoked = e
        /\ "error" \notin DOMAIN result
        /\ result.feedback = <<"No feedback available">>
        /\ exercise_counters[e] = [state |-> CountFrom(e), rep_count |-> 1]

(***************************************************************************)
(* C6.  When the routed counter fails on a full-length frame, analyze_pose *)
(* returns the failure envelope: an error message, reps 0, form_score 0,   *)
(* feedback ["Analysis error occurred"] and success false.                 *)
(***************************************************************************)
C6_CounterFailureEnvelope ==
    [][\A name \in FrameNames, e \in ExerciseTypes :
          (FailsIn(name, e) /\ AnalyzePose(name, e))
             => /\ DOMAIN result' = {"error", "reps", "form_score", "feedback", "success"}
                /\ result'.success = FALSE
                /\ result'.reps = 0
                /\ result'.form_score = 0
                /\ result'.feedback = <<"Analysis error occurred">>]_vars

(***************************************************************************)
(* C7.  A call with an exercise type outside the supported set returns     *)
(* success false together with the unsupported-exercise-type error, for    *)
(* every landmark input (empty, short or full length).                     *)
(***************************************************************************)
C7_UnsupportedTypeEnvelope ==
    [][\A name \in InputNames :
          AnalyzePose(name, "pogo-stick")
             => /\ "error" \in DOMAIN result'
                /\ result'.error = "Unsupported exercise type"
                /\ "success" \in DOMAIN result'
                /\ result'.success = FALSE]_vars

(***************************************************************************)
(* C8.  A call with a supported exercise type and fewer than 33 landmarks  *)
(* (none included) returns the insufficient-landmarks error, invokes no    *)
(* counter and leaves every counter as it was.                             *)
(***************************************************************************)
C8_InsufficientLandmarks ==
    [][\A name \in InputNames, e \in ExerciseTypes :
          (Len(Landmarks(name)) < 33 /\ AnalyzePose(name, e))
             => /\ "error" \in DOMAIN result'
                /\ result'.error = "Insufficient landmarks detected"
                /\ invoked' = "none"
                /\ exercise_counters' = exercise_counters]_vars

\* the error was returned while a counter was half way through a rep
C8_Witness ==
    /\ "error" \in DOMAIN result
    /\ result.error = "Insufficient landmarks detected"
    /\ invoked = "none"
    /\ \E e \in ExerciseTypes : exercise_counters[e].state = CountFrom(e)

(***************************************************************************)
(* C9.  Sessions are independent: what a session is answered (and so the   *)
(* reps it observes) is what an analyzer fed only with that session's own  *)
(* frames would answer, whatever the other session has submitted.          *)
(***************************************************************************)
C9_SessionsIndependent == caller # "none" => result = expected

(***************************************************************************)
(* C10.  Frames reach a counter one at a time: no two calls of analyze are *)
(* in progress on the same counter at the same moment.                     *)
(***************************************************************************)
C10_AnalyzeSerialized ==
    \A s, t \in Sessions :
        (s # t /\ InAnalyze(s) /\ InAnalyze(t))
           => frame[s].exercise_type # frame[t].exercise_type

(***************************************************************************)
(* C11.  A push-up or squat counter that has been given the same static   *)
(* fully-up frame (angle 175) and nothing else, any number of times, has   *)
(* counted nothing: rep_count is 0, the phase is "up", and the result of   *)
(* each of these frames reports reps 0 and phase "up".                     *)
(***************************************************************************)
\* the counter of exercise_type got n > 0 frames, all measuring the angle deg
StaticAt(exercise_type, deg) ==
    /\ same[exercise_type].n > 0
    /\ same[exercise_type].m.method = exercise_type
    /\ same[exercise_type].m.angle = deg * 1000

C11_StaticUpFrame ==
    \A e \in {"pushup", "squat"} :
        StaticAt(e, 175)
           => /\ exercise_counters[e] = [state |-> "up", rep_count |-> 0]
              /\ args.method = e => (ret.reps = 0 /\ ret.state = "up")

\* the static frame was submitted three times
C11_Witness ==
    \E e \in {"pushup", "squat"} :
        /\ StaticAt(e, 175)
        /\ same[e].n = 3
        /\ args.method = e
        /\ ret.reps = 0 /\ ret.state = "up"

(***************************************************************************)
(* C12.  Every score a scoring function returns is in [0, 100]: push-up    *)
(* for every arm angle (0 and 200 included) and every alignment score,     *)
(* squat for every knee angle (0 and 200 included), jumping-jack for every *)
(* pair of non-negative ratios (5.0 included).                             *)
(***************************************************************************)
C12_FormScoreInRange ==
    ret # NoResult
       => CASE args.method = "_calculate_pushup_form_score" ->
                  0 <= ret.form_score /\ ret.form_score <= 1000000
            [] args.method = "_calculate_squat_form_score" ->
                  0 <= ret.form_score /\ ret.form_score <= 1000000
            [] args.method = "_calculate_jumping_jack_form_score" ->
                  /\ 0 <= ret.form_score.num
                  /\ ret.form_score.num <= 1000 * ret.form_score.den
            [] OTHER -> TRUE

\* the extremes were scored: a knee angle of 0 or 200, an arm angle of 200
\* with an alignment score above 100, or a ratio of 5
C12_Witness ==
    /\ ret # NoResult
    /\ \/ args.method = "_calculate_squat_form_score"
          /\ args.knee_angle \in {0, 200000} /\ ret.form_score = 0
       \/ args.method = "_calculate_pushup_form_score"
          /\ args.arm_angle = 200000 /\ args.body_alignment = 150000
       \/ args.method = "_calculate_jumping_jack_form_score"
          /\ args.arm_ratio = [num |-> 5, den |-> 1]

(***************************************************************************)
(* C13.  In every result analyze_pose returns with success true, reps is   *)
(* the cumulative rep_count of the counter the call was routed to, as it   *)
(* stands after the frame.                                                 *)
(***************************************************************************)
C13_RepsIsRepCount ==
    (/\ invoked \in ExerciseTypes
     /\ "success" \in DOMAIN result
     /\ result.success = TRUE)
       => result.reps = exercise_counters[invoked].rep_count

(***************************************************************************)
(* C14.  For every supported exercise type and every frame of at least 33  *)
(* well-formed landmarks, analyze_pose returns the uniform envelope: reps, *)
(* form_score, feedback and success, with success true, reps >= 0,         *)
(* form_score in [0, 100] and a non-empty feedback list.  The default      *)
(* ["No feedback available"] is returned only when the dict of the counter *)
(* carries no feedback.                                                    *)
(***************************************************************************)
\* at least 33 landmarks, each of them readable
WellFormed(name) ==
    /\ Len(Landmarks(name)) >= 33
    /\ \A i \in 1..Len(Landmarks(name)) : Landmarks(name)[i].ok

\* the uniform envelope of a successful call
UniformEnvelope(r) ==
    /\ DOMAIN r = {"reps", "form_score", "feedback", "success"}
    /\ r.success = TRUE
    /\ r.reps \in Nat
    /\ 0 <= r.form_score /\ r.form_score <= 1000
    /\ Len(r.feedback) > 0

\* whatever the counters have reached, the call for each frame and type
\* returns as claimed; result is what the last call returned
C14_UniformEnvelope ==
    /\ \A name \in InputNames, e \in ExerciseTypes :
          LET out == analyze_pose(exercise_counters, Landmarks(name), e)
          IN  /\ WellFormed(name) => UniformEnvelope(out.result)
              /\ (/\ out.invoked = e
                  /\ out.result.feedback = <<"No feedback available">>)
                 => "feedback" \notin DOMAIN
                       CounterAnalyze(e, exercise_counters[e], Landmarks(name)).result
    /\ (/\ invoked \in ExerciseTypes
        /\ result.feedback # <<"No feedback available">>)
       => UniformEnvelope(result)

\* a well-formed frame was answered with a counted rep and the feedback of
\* its counter
C14_Witness ==
    /\ invoked \in ExerciseTypes
    /\ DOMAIN result = {"reps", "form_score", "feedback", "success"}
    /\ result.success = TRUE
    /\ result.reps = 1
    /\ result.form_score > 0
    /\ result.feedback \in {<<"Great form!">>, <<"Great squat!">>,
                            <<"Raise your arms higher", "Jump with wider legs">>}

(***************************************************************************)
(* C15.  For all points a, b, c with b distinct from a and from c, the     *)
(* angle helper returns a value in [0, 180], and the value does not change *)
(* when the outer arguments are swapped: angle(a, b, c) = angle(c, b, a).  *)
(***************************************************************************)
\* the helper has returned for a vertex b distinct from both outer points
AngleReturned ==
    /\ ret # NoResult
    /\ args.method = "_calculate_angle"
    /\ args.b # args.a
    /\ args.b # args.c

C15_AngleRangeSymmetry ==
    AngleReturned
       => /\ 0 <= ret.angle /\ ret.angle <= 180000
          /\ ret.angle = calculate_angle(args.c, args.b, args.a)

\* the two directions differ by more than 180 degrees, so the value returned
\* is 360 minus the difference, and swapping the points changes the sign of
\* the difference
C15_Witness ==
    /\ AngleReturned
    /\ arctan2(args.c.y - args.b.y, args.c.x - args.b.x)
          - arctan2(args.a.y - args.b.y, args.a.x - args.b.x) > 180000
    /\ ret.angle = 90000

(***************************************************************************)
(* C16.  Degenerate geometry, a = b or c = b: the angle helper returns the *)
(* degenerate value 0.                                                     *)
(***************************************************************************)
C16_DegenerateAngleZero ==
    (/\ ret # NoResult
     /\ args.method = "_calculate_angle"
     /\ (args.a = args.b \/ args.c = args.b))
       => ret.angle = 0

(***************************************************************************)
(* C17.  Push-up next-state rule.  From phase up a frame with              *)
(* avg_arm_angle < 90 moves to down and leaves rep_count; from phase down  *)
(* a frame with avg_arm_angle > 160 moves to up and adds 1 to rep_count;   *)
(* every other combination of phase and angle, any angle in [90, 160]      *)
(* with exactly 90 and exactly 160 among them, leaves both as they were.   *)
(***************************************************************************)
C17_PushupRule ==
    [][\A m \in Measurements("pushup") :
          AnalyzeFrame("pushup", m)
             => LET before == exercise_counters["pushup"]
                    after == exercise_counters'["pushup"]
                IN  /\ (before.state = "up" /\ m.angle < 90000)
                          => after = [state |-> "down", rep_count |-> before.rep_count]
                    /\ (before.state = "down" /\ m.angle > 160000)
                          => after = [state |-> "up", rep_count |-> before.rep_count + 1]
                    /\ (before.state = "up" /\ m.angle >= 90000) => after = before
                    /\ (before.state = "down" /\ m.angle <= 160000) => after = before
                    /\ (90000 <= m.angle /\ m.angle <= 160000) => after = before]_vars

\* a frame of exactly 160, the third frame of the counter, has left it in
\* phase down
C17_Witness ==
    /\ args = [method |-> "pushup", angle |-> 160000, alignment |-> 100000]
    /\ exercise_counters["pushup"] = [state |-> "down", rep_count |-> 0]
    /\ same["pushup"].n = 3

(***************************************************************************)
(* C18.  Squat next-state rule.  From phase up a frame with                *)
(* avg_knee_angle < 120 moves to down and leaves rep_count; from phase     *)
(* down a frame with avg_knee_angle > 160 moves to up and adds 1 to        *)
(* rep_count; every other combination, any angle in [120, 160] among them, *)
(* leaves both as they were.                                               *)
(***************************************************************************)
C18_SquatRule ==
    [][\A m \in Measurements("squat") :
          AnalyzeFrame("squat", m)
             => LET before == exercise_counters["squat"]
                    after == exercise_counters'["squat"]
                IN  /\ (before.state = "up" /\ m.angle < 120000)
                          => after = [state |-> "down", rep_count |-> before.rep_count]
                    /\ (before.state = "down" /\ m.angle > 160000)
                          => after = [state |-> "up", rep_count |-> before.rep_count + 1]
                    /\ (before.state = "up" /\ m.angle >= 120000) => after = before
                    /\ (before.state = "down" /\ m.angle <= 160000) => after = before
                    /\ (120000 <= m.angle /\ m.angle <= 160000) => after = before]_vars

\* a frame of exactly 120 has left a counter in phase up
C18_Witness ==
    /\ args = [method |-> "squat", angle |-> 120000]
    /\ exercise_counters["squat"] = [state |-> "up", rep_count |-> 1]

(***************************************************************************)
(* C19.  Jumping-jack next-state rule.  is_open holds exactly when         *)
(* arm_ratio > 0.3 and leg_ratio > 0.2.  From closed an is_open frame      *)
(* moves to open and leaves rep_count; from open a frame that is not       *)
(* is_open (the arms alone or the legs alone at or below the threshold     *)
(* are enough) moves to closed and adds 1 to rep_count; every other        *)
(* combination leaves both as they were.                                   *)
(***************************************************************************)
C19_JumpingJackRule ==
    [][\A m \in Measurements("jumping_jack") :
          AnalyzeFrame("jumping_jack", m)
             => LET before == exercise_counters["jumping_jack"]
                    after == exercise_counters'["jumping_jack"]
                    arms == 10 * m.arm.num > 3 * m.arm.den
                    legs == 10 * m.leg.num > 2 * m.leg.den
                IN  /\ (before.state = "closed" /\ arms /\ legs)
                          => after = [state |-> "open", rep_count |-> before.rep_count]
                    /\ (before.state = "open" /\ (~arms \/ ~legs))
                          => after = [state |-> "closed",
                                      rep_count |-> before.rep_count + 1]
                    /\ (before.state = "closed" /\ (~arms \/ ~legs)) => after = before
                    /\ (before.state = "open" /\ arms /\ legs) => after = before]_vars

\* the rep was counted on a frame whose arms are at exactly 0.3 while the
\* legs are still wide
C19_Witness ==
    /\ args = [method |-> "jumping_jack", arm |-> [num |-> 3, den |-> 10],
               leg |-> [num |-> 1, den |-> 2]]
    /\ exercise_counters["jumping_jack"] = [state |-> "closed", rep_count |-> 1]

(***************************************************************************)
(* C20.  For each counter, after any sequence of frames, the phase is one  *)
(* of its two phases and rep_count is the number of completed cycles: the  *)
(* number of entries into down (open) so far, minus one when the current   *)
(* phase is down (open).  No rep is counted without an entry that has not  *)
(* been counted yet.                                                       *)
(***************************************************************************)
C20_RepsAreCycles ==
    \A e \in ExerciseTypes :
        LET self == exercise_counters[e]
        IN  /\ self.state \in {CountFrom(e), CountTo(e)}
            /\ self.rep_count
                  = entered[e] - (IF self.state = CountFrom(e) THEN 1 ELSE 0)
            /\ self.rep_count <= entered[e]

\* a counter is in its second cycle
C20_Witness ==
    \E e \in ExerciseTypes :
        /\ entered[e] = 2
        /\ exercise_counters[e] = [state |-> CountFrom(e), rep_count |-> 1]

(***************************************************************************)
(* C21.  A single frame makes a counter take at most one phase transition  *)
(* and raises its rep_count by at most 1, and never both enters down/open  *)
(* and counts a rep; after n frames delivered to a freshly created         *)
(* counter, rep_count <= floor(n / 2).                                     *)
(***************************************************************************)
C21_OneTransitionPerFrame ==
    [][\A e \in ExerciseTypes :
          LET before == exercise_counters[e]
              after == exercise_counters'[e]
          IN  /\ after.rep_count - before.rep_count \in {0, 1}
              /\ ~(Enters(e, before, after) /\ after.rep_count # before.rep_count)
              /\ after.rep_count # before.rep_count => Leaves(e, before, after)
              /\ entered'[e] - entered[e] \in {0, 1}
              /\ after.rep_count <= same'[e].n \div 2]_vars

\* a counter has counted with its second frame, the earliest it can
C21_Witness ==
    \E e \in ExerciseTypes :
        /\ same[e].n = 2
        /\ exercise_counters[e] = [state |-> CountTo(e), rep_count |-> 1]

(***************************************************************************)
(* C22.  The Pose Analyzer routes a frame to the counter of its exercise   *)
(* type and to no other: whatever the counters have reached, processing a  *)
(* frame for one exercise type leaves the phase and the rep_count of the   *)
(* other two counters as they were.                                        *)
(***************************************************************************)
C22_RoutesToOneCounter ==
    \A name \in InputNames, e \in ExerciseTypes :
        LET out == analyze_pose(exercise_counters, Landmarks(name), e)
        IN  /\ Len(Landmarks(name)) >= 33 => out.invoked = e
            /\ \A other \in ExerciseTypes \ {e} :
                  out.counters[other] = exercise_counters[other]

\* a squat frame has counted a squat while the push-up counter is half way
\* through a rep and the jumping-jack counter is untouched
C22_Witness ==
    /\ invoked = "squat"
    /\ exercise_counters["squat"] = [state |-> "up", rep_count |-> 1]
    /\ exercise_counters["pushup"] = [state |-> "down", rep_count |-> 0]
    /\ exercise_counters["jumping_jack"] = JumpingJackInit

(***************************************************************************)
(* C23.  A call the Pose Analyzer rejects (unsupported exercise type, or   *)
(* fewer than 33 landmarks) leaves the phase and the rep_count of all      *)
(* three counters as they were, and the next valid frame is processed as   *)
(* if the rejected call had not been made.                                 *)
(***************************************************************************)
\* analyze_pose rejects the call before it reaches a counter
Rejected(name, exercise_type) ==
    exercise_type \notin ExerciseTypes \/ Len(Landmarks(name)) < 33

C23_RejectedCallNoEffect ==
    \A name \in InputNames, sel \in Selectors :
        Rejected(name, sel)
           => LET out == analyze_pose(exercise_counters, Landmarks(name), sel)
              IN  /\ out.invoked = "none"
                  /\ out.counters = exercise_counters
                  /\ name \in {"FUp", "FShort32"}
                        => \A next \in FrameNames, e \in ExerciseTypes :
                              analyze_pose(out.counters, Landmarks(next), e)
                                 = analyze_pose(exercise_counters, Landmarks(next), e)

\* a call was rejected while a counter had counted and was half way through
\* its next rep
C23_Witness ==
    /\ caller # "none"
    /\ status = 200
    /\ invoked = "none"
    /\ "error" \in DOMAIN result
    /\ result.error \in {"Unsupported exercise type", "Insufficient landmarks detected"}
    /\ \E e \in ExerciseTypes :
          exercise_counters[e] = [state |-> CountFrom(e), rep_count |-> 1]

(***************************************************************************)
(* C24.  Calls of analyze that overlap on the shared counter of one        *)
(* exercise type neither count a cycle twice nor lose an increment: once   *)
(* every request has been answered, rep_count is the number of times the   *)
(* counter's phase went to down (open), minus one when it is still there.  *)
(***************************************************************************)
C24_OverlapCountsOnce ==
    (\A s \in Sessions : pc[s] = "idle")
       => \A e \in ExerciseTypes :
             exercise_counters[e].rep_count
                = entered[e] - (IF exercise_counters[e].state = CountFrom(e)
                                THEN 1 ELSE 0)

(***************************************************************************)
(* C25.  Push-up feedback: at most one angle message, the first that       *)
(* matches of angle < 60 (too low), angle < 90 and phase down (good        *)
(* depth), 120 < angle < 160 (push all the way up), angle >= 160 (great    *)
(* form); then the sagging warning exactly when body_alignment < 70;       *)
(* "Excellent form!" exactly when neither produced a message.  The list    *)
(* has 1 or 2 entries.                                                     *)
(***************************************************************************)
\* the message is in the list
Has(feedback, message) == \E i \in 1..Len(feedback) : feedback[i] = message

\* the list holds exactly the messages of order that are said, in that order
InOrder(feedback, order) ==
    LET Said(message) == Has(feedback, message)
    IN  feedback = SelectSeq(order, Said)

C25_PushupFeedback ==
    (ret # NoResult /\ args.method = "_generate_pushup_feedback")
       => LET a == args.arm_angle
              low == a < 60000
              depth == ~low /\ a < 90000 /\ args.state = "down"
              push == 120000 < a /\ a < 160000
              great == a >= 160000
              sagging == args.body_alignment < 70000
          IN  /\ Has(ret.feedback, "Don't go too low - protect your shoulders") <=> low
              /\ Has(ret.feedback, "Good depth! Now push up") <=> depth
              /\ Has(ret.feedback, "Push all the way up") <=> push
              /\ Has(ret.feedback, "Great form!") <=> great
              /\ Has(ret.feedback, "Keep your body straight - avoid sagging") <=> sagging
              /\ Has(ret.feedback, "Excellent form!")
                    <=> ~(low \/ depth \/ push \/ great \/ sagging)
              /\ InOrder(ret.feedback,
                         <<"Don't go too low - protect your shoulders",
                           "Good depth! Now push up", "Push all the way up",
                           "Great form!", "Keep your body straight - avoid sagging",
                           "Excellent form!">>)
              /\ Len(ret.feedback) \in {1, 2}

\* an angle message followed by the sagging warning; the angle is below 60
\* in phase down, where only the first rule of the chain speaks
C25_Witness ==
    /\ args.method = "_generate_pushup_feedback"
    /\ args.state = "down" /\ args.arm_angle = 59999
    /\ ret # NoResult
    /\ ret.feedback = <<"Don't go too low - protect your shoulders",
                        "Keep your body straight - avoid sagging">>

(***************************************************************************)
(* C26.  Squat feedback is exactly one message, by priority: avg < 80 too  *)
(* deep; else avg <= 120 and phase down perfect depth; else 130 < avg <    *)
(* 160 stand up completely; else avg >= 160 great squat; else "Excellent   *)
(* form!".                                                                 *)
(***************************************************************************)
C26_SquatFeedback ==
    (ret # NoResult /\ args.method = "_generate_squat_feedback")
       => LET a == args.knee_angle
              deep == a < 80000
              depth == 80000 <= a /\ a <= 120000 /\ args.state = "down"
              stand == 130000 < a /\ a < 160000
              great == a >= 160000
          IN  /\ Len(ret.feedback) = 1
              /\ ret.feedback[1] = "Don't squat too deep" <=> deep
              /\ ret.feedback[1] = "Perfect depth! Now stand up" <=> depth
              /\ ret.feedback[1] = "Stand up completely" <=> stand
              /\ ret.feedback[1] = "Great squat!" <=> great
              /\ ret.feedback[1] = "Excellent form!"
                    <=> ~(deep \/ depth \/ stand \/ great)

\* no rule fires: a knee angle of 120 in phase up, or one in (120, 130]
C26_Witness ==
    /\ args.method = "_generate_squat_feedback"
    /\ \/ args.state = "up" /\ args.knee_angle = 120000
       \/ args.knee_angle = 130000
    /\ ret # NoResult
    /\ ret.feedback = <<"Excellent form!">>

(***************************************************************************)
(* C27.  Jumping-jack feedback: three independent checks, every one that   *)
(* matches is appended, in the order arm_ratio < 0.2 (raise arms),         *)
(* leg_ratio < 0.15 (wider legs), |arm_ratio - leg_ratio| > 0.1            *)
(* (coordinate); "Perfect jumping jacks!" exactly when none matched.  The  *)
(* list has 1 to 3 entries and the perfect message stands alone.           *)
(***************************************************************************)
C27_JumpingJackFeedback ==
    (ret # NoResult /\ args.method = "_generate_jumping_jack_feedback")
       => LET arm == args.arm_ratio
              leg == args.leg_ratio
              arms == 10 * arm.num < 2 * arm.den
              legs == 100 * leg.num < 15 * leg.den
              coordinate == 10 * Abs(arm.num * leg.den - leg.num * arm.den)
                               > arm.den * leg.den
          IN  /\ Has(ret.feedback, "Raise your arms higher") <=> arms
              /\ Has(ret.feedback, "Jump with wider legs") <=> legs
              /\ Has(ret.feedback, "Coordinate arms and legs together") <=> coordinate
              /\ Has(ret.feedback, "Perfect jumping jacks!")
                    <=> ~(arms \/ legs \/ coordinate)
              /\ InOrder(ret.feedback,
                         <<"Raise your arms higher", "Jump with wider legs",
                           "Coordinate arms and legs together",
                           "Perfect jumping jacks!">>)
              /\ Len(ret.feedback) \in 1..3
              /\ Has(ret.feedback, "Perfect jumping jacks!") => Len(ret.feedback) = 1

\* all three checks matched
C27_Witness ==
    /\ args.method = "_generate_jumping_jack_feedback"
    /\ ret # NoResult
    /\ ret.feedback = <<"Raise your arms higher", "Jump with wider legs",
                        "Coordinate arms and legs together">>

(***************************************************************************)
(* C28.  For each counter, the same frame submitted twice in a row is      *)
(* stable: from every reachable state of the counter, the second           *)
(* submission leaves phase and rep_count as the first left them and        *)
(* returns the result the first returned.                                  *)
(***************************************************************************)
C28_RepeatedFrameStable ==
    \A e \in ExerciseTypes :
        \A m \in Measurements(e) :
            LET first == Measured(exercise_counters[e], m)
                second == Measured(first.self, m)
            IN  /\ second.self = first.self
                /\ second.result = first.result

\* two frames in all, the same open jumping-jack frame twice: the first
\* opened the counter, the second returned the same result
C28_Witness ==
    /\ same["jumping_jack"].n = 2
    /\ same["jumping_jack"].m \in Measurements("jumping_jack")
    /\ jack_is_open(same["jumping_jack"].m.arm, same["jumping_jack"].m.leg)
    /\ exercise_counters["jumping_jack"] = [state |-> "open", rep_count |-> 0]
    /\ ret = Measured(JumpingJackInit, same["jumping_jack"].m).result

(***************************************************************************)
(* C29.  Push-up: the phase reported in a result of analyze is the phase   *)
(* after the frame's transition; it is "down" whenever avg_arm_angle < 90  *)
(* and "up" whenever avg_arm_angle > 160.  Hence every frame with          *)
(* 60 <= avg_arm_angle < 90 yields the good-depth message, whatever the    *)
(* phase before the frame.                                                 *)
(***************************************************************************)
C29_Angles == Angles \cup {60000, 75000}

C29_PushupPhaseAfterFrame ==
    \A angle \in C29_Angles, alignment \in Alignments :
        LET out == Measured(exercise_counters["pushup"],
                            [method |-> "pushup", angle |-> angle,
                             alignment |-> alignment])
        IN  /\ out.result.state = out.self.state
            /\ out.result.reps = out.self.rep_count
            /\ angle < 90000 => out.result.state = "down"
            /\ angle > 160000 => out.result.state = "up"
            /\ (60000 <= angle /\ angle < 90000)
                  => out.result.feedback[1] = "Good depth! Now push up"

\* the first frame of a push-up counter, which is in phase up, has an angle
\* in [60, 90): the result is in phase down and carries the message
C29_Witness ==
    /\ ncalls = 1
    /\ same["pushup"].n = 1
    /\ args.angle \in {60000, 75000, 89999}
    /\ exercise_counters["pushup"].state = "down"
    /\ ret.state = "down"
    /\ ret.feedback[1] = "Good depth! Now push up"

(***************************************************************************)
(* C30.  Jumping-jack: a frame whose body_height is 0 (nose y equal to     *)
(* the smaller ankle y) is not an error.  arm_ratio and leg_ratio are      *)
(* both taken as 0, is_open is false, the normal transition rule runs (an  *)
(* open counter closes and counts a rep, a closed one stays) and a normal  *)
(* result is returned.                                                     *)
(***************************************************************************)
C30_ZeroBodyHeight ==
    LET landmarks == Landmarks("FLow")
        before == exercise_counters["jumping_jack"]
        counted == CounterAnalyze("jumping_jack", before, landmarks)
        out == analyze_pose(exercise_counters, landmarks, "jumping_jack")
    IN  /\ jack_body_height(landmarks) = 0
        /\ At(landmarks, RIGHT_WRIST).x # At(landmarks, LEFT_WRIST).x
        /\ At(landmarks, RIGHT_ANKLE).x # At(landmarks, LEFT_ANKLE).x
        /\ jack_arm_ratio(landmarks).num = 0
        /\ jack_leg_ratio(landmarks).num = 0
        /\ ~jack_is_open(jack_arm_ratio(landmarks), jack_leg_ratio(landmarks))
        /\ counted.self = IF before.state = "open"
                          THEN [state |-> "closed",
                                rep_count |-> before.rep_count + 1]
                          ELSE before
        /\ "error" \notin DOMAIN counted.result
        /\ counted.result.arm_ratio = 0 /\ counted.result.leg_ratio = 0
        /\ counted.result.state = "closed"
        /\ counted.result.reps = counted.self.rep_count
        /\ out.invoked = "jumping_jack"
        /\ out.counters = [exercise_counters EXCEPT !["jumping_jack"] = counted.self]
        /\ UniformEnvelope(out.result)
        /\ out.result.reps = counted.self.rep_count
        /\ out.result.feedback = <<"Raise your arms higher", "Jump with wider legs">>

\* the jumping-jack counter was opened by one frame and the frame of body
\* height 0 came next: it closed the counter and counted the rep
C30_Witness ==
    /\ hist # Overflow
    /\ Len(hist) = 2
    /\ hist[1][1] = "jumping_jack"
    /\ hist[2] = <<"jumping_jack", "FLow">>
    /\ invoked = "jumping_jack"
    /\ exercise_counters["jumping_jack"] = [state |-> "closed", rep_count |-> 1]
    /\ UniformEnvelope(result)
    /\ result.reps = 1

(***************************************************************************)
(* C31.  The push-up form score is the reference formula for every arm     *)
(* angle and alignment score: angle_score is 100 for an angle in [60, 90]  *)
(* or [160, 180], 70 strictly between 90 and 160, otherwise                *)
(* max(0, 100 - 2 |angle - 90|); form_score is 0.7 angle_score + 0.3       *)
(* body_alignment_score clamped to [0, 100]; body_alignment_score is       *)
(* 100 - 1000 |shoulder-centre y - hip-centre y| clamped to [0, 100].      *)
(***************************************************************************)
\* the reference angle score by ranges, thousandths of a point: outside the
\* ideal ranges 100 - 2 |angle - 90| is 2 angle - 80 below 60, which is
\* positive above 40 only, and negative above 180
C31_AngleScore(arm_angle) ==
    IF arm_angle <= 40000 THEN 0
    ELSE IF arm_angle < 60000 THEN 2 * arm_angle - 80000
    ELSE IF arm_angle <= 90000 THEN 100000
    ELSE IF arm_angle < 160000 THEN 70000
    ELSE IF arm_angle <= 180000 THEN 100000
    ELSE 0

C31_PushupFormScore ==
    ret # NoResult
       => /\ args.method = "_calculate_pushup_form_score"
                => LET weighted == 7 * C31_AngleScore(args.arm_angle)
                                      + 3 * args.body_alignment
                   IN  ret.form_score = IF weighted < 0 THEN 0
                                        ELSE IF weighted > 1000000 THEN 1000000
                                        ELSE weighted
          /\ args.method = "_calculate_body_alignment"
                => LET shoulders == args.left_shoulder + args.right_shoulder
                       hips == args.left_hip + args.right_hip
                       \* 100 - 1000 |shoulders / 2 - hips / 2|, the
                       \* coordinates being thousandths
                       score == 100000 - 500 * Abs(shoulders - hips)
                   IN  ret.alignment_score = IF score < 0 THEN 0
                                             ELSE IF score > 100000 THEN 100000
                                             ELSE score

\* an angle of 50, below the lower ideal range, with a middling alignment:
\* 0.7 x 20 + 0.3 x 50 = 29 points
C31_Witness ==
    /\ ret # NoResult
    /\ args.method = "_calculate_pushup_form_score"
    /\ args.arm_angle = 50000 /\ args.body_alignment = 50000
    /\ ret.form_score = 290000

(***************************************************************************)
(* C32.  The squat form score is the reference formula for every knee      *)
(* angle: 100 in [80, 120] or [160, 180], 70 strictly between 120 and 160, *)
(* otherwise max(0, 100 - 1.5 |avg - 100|).                                *)
(***************************************************************************)
\* the reference by ranges, 1e-4 points: outside the ideal ranges
\* 100 - 1.5 |avg - 100| is 1.5 avg - 50 below 80, which is positive above
\* 33.33 only, and negative above 180
C32_SquatFormScore ==
    (ret # NoResult /\ args.method = "_calculate_squat_form_score")
       => LET avg == args.knee_angle
          IN  ret.form_score =
                  IF 3 * avg <= 100000 THEN 0
                  ELSE IF avg < 80000 THEN 15 * avg - 500000
                  ELSE IF avg <= 120000 THEN 1000000
                  ELSE IF avg < 160000 THEN 700000
                  ELSE IF avg <= 180000 THEN 1000000
                  ELSE 0

\* a knee angle of 50, below the ideal range: 100 - 1.5 x 50 = 25 points
C32_Witness ==
    /\ ret # NoResult
    /\ args.method = "_calculate_squat_form_score"
    /\ args.knee_angle = 50000
    /\ ret.form_score = 250000

(***************************************************************************)
(* C33.  Squat boundary: a frame with avg_knee_angle exactly 120 received  *)
(* in phase "up" leaves the phase alone and yields the single feedback     *)
(* "Excellent form!" with form_score 100; received in phase "down" it      *)
(* yields the perfect-depth message.  For every avg in [80, 120) the       *)
(* perfect-depth message is produced whatever the phase before the frame.  *)
(***************************************************************************)
C33_Angles == Angles \cup {80000, 100000}

C33_SquatBoundary ==
    LET before == exercise_counters["squat"]
    IN  /\ LET out == Measured(before, [method |-> "squat", angle |-> 120000])
           IN  /\ out.self = before
               /\ out.result.state = before.state
               /\ out.result.form_score = 1000
               /\ before.state = "up"
                     => out.result.feedback = <<"Excellent form!">>
               /\ before.state = "down"
                     => out.result.feedback = <<"Perfect depth! Now stand up">>
        /\ \A angle \in C33_Angles :
               (80000 <= angle /\ angle < 120000)
                  => LET out == Measured(before, [method |-> "squat",
                                                  angle |-> angle])
                     IN  /\ out.self.state = "down"
                         /\ out.result.feedback = <<"Perfect depth! Now stand up">>

\* the first frame of a squat counter, which is in phase up, has knees at
\* exactly 120
C33_Witness ==
    /\ ncalls = 1
    /\ same["squat"].n = 1
    /\ args = [method |-> "squat", angle |-> 120000]
    /\ exercise_counters["squat"] = [state |-> "up", rep_count |-> 0]
    /\ ret.state = "up"
    /\ ret.form_score = 1000
    /\ ret.feedback = <<"Excellent form!">>

(***************************************************************************)
(* C34.  A counter's analyze never propagates an exception, whatever the   *)
(* landmarks hold: a fault is caught inside the counter and returned as a  *)
(* dict that carries the counter's own error message and nothing else, and *)
(* the counter serves the next frame as if the faulty one had not come.    *)
(***************************************************************************)
FailureMessage(exercise_type) ==
    CASE exercise_type = "pushup" -> "Pushup analysis failed"
      [] exercise_type = "squat" -> "Squat analysis failed"
      [] exercise_type = "jumping_jack" -> "Jumping jack analysis failed"

C34_CounterCatchesFaults ==
    \A e \in ExerciseTypes :
        LET before == exercise_counters[e]
        IN  \A name \in FrameNames :
                LET out == CounterAnalyze(e, before, Landmarks(name))
                IN  IF Readable(Landmarks(name), Required(e))
                    THEN /\ "raised" \notin DOMAIN out.result
                         /\ "error" \notin DOMAIN out.result
                    ELSE /\ out.result = [error |-> FailureMessage(e)]
                         /\ out.self = before
                         /\ \A next \in FrameNames :
                               LET then == CounterAnalyze(e, out.self, Landmarks(next))
                               IN  /\ "raised" \notin DOMAIN then.result
                                   /\ then = CounterAnalyze(e, before, Landmarks(next))

\* a squat counter that was down got a frame it could not read: the request
\* was answered (from the dict without reps, score and feedback), the counter
\* is still down
C34_Witness ==
    /\ caller # "none"
    /\ status = 200
    /\ invoked = "squat"
    /\ result = Envelope([error |-> "Squat analysis failed"])
    /\ exercise_counters["squat"] = [state |-> "down", rep_count |-> 0]

(***************************************************************************)
(* C35.  As stated: the envelope analyze_pose returns on success carries,  *)
(* besides success, reps, form_score and feedback, the diagnostic fields   *)
(* the counter produced (current phase, arm or knee angle, body alignment, *)
(* arm and leg ratios).                                                    *)
(***************************************************************************)
\* the diagnostic fields of the dict each counter returns
Diagnostics(exercise_type) ==
    CASE exercise_type = "pushup" -> {"arm_angle", "body_alignment", "state"}
      [] exercise_type = "squat" -> {"knee_angle", "state"}
      [] exercise_type = "jumping_jack" -> {"state", "arm_ratio", "leg_ratio"}

\* the last call was routed to a counter that analysed the frame
Analysed ==
    /\ invoked \in ExerciseTypes
    /\ "success" \in DOMAIN result
    /\ result.success = TRUE
    /\ result.feedback # <<"No feedback available">>

C35_EnvelopeCarriesDiagnostics ==
    Analysed => Diagnostics(invoked) \subseteq DOMAIN result

(***************************************************************************)
(* C35, as the code has it: the envelope analyze_pose returns on success   *)
(* carries success, reps, form_score and feedback and nothing else; reps,  *)
(* form_score and feedback are those of the counter's dict, whose          *)
(* diagnostic fields (phase, angle, body alignment, ratios) are computed   *)
(* by the counter and left out of the envelope.                            *)
(***************************************************************************)
C35_EnvelopeDropsDiagnostics ==
    /\ Analysed => DOMAIN result = {"reps", "form_score", "feedback", "success"}
    /\ \A e \in ExerciseTypes, name \in FrameNames :
          Readable(Landmarks(name), Required(e))
             => LET counted == CounterAnalyze(e, exercise_counters[e], Landmarks(name))
                    out == analyze_pose(exercise_counters, Landmarks(name), e)
                IN  /\ DOMAIN counted.result
                          = {"reps", "form_score", "feedback"} \cup Diagnostics(e)
                    /\ DOMAIN out.result = {"reps", "form_score", "feedback", "success"}
                    /\ out.result.success = TRUE
                    /\ out.result.reps = counted.result.reps
                    /\ out.result.form_score = counted.result.form_score
                    /\ out.result.feedback = counted.result.feedback

\* a push-up request that counted a rep was answered with the four fields
C35_Witness ==
    /\ Analysed
    /\ status = 200
    /\ invoked = "pushup"
    /\ result.reps = 1
    /\ exercise_counters["pushup"] = [state |-> "up", rep_count |-> 1]
    /\ DOMAIN result = {"reps", "form_score", "feedback", "success"}

====
